---- MODULE Spec2Model ----
(***************************************************************************)
(* TWAMP (RFC 5357, unauthenticated mode) as implemented by twamp-rs:      *)
(* the Controller endpoint (Control-Client + Session-Sender tasks) and the *)
(* Responder endpoint (Server + Session-Reflector tasks), the TCP control  *)
(* dialogue between them, the one-shot signals inside each endpoint and    *)
(* the UDP test stream.                                                    *)
(***************************************************************************)
EXTENDS Integers, Sequences, FiniteSets, Bags, TLC

(***************************************************************************)
(* Bounds of the model.                                                    *)
(***************************************************************************)
\* largest number_of_test_packets tried
MaxPackets == 2
\* UDP ports are 0 (OS-assigned) and 1..MaxPort
MaxPort == 2
\* the local ports the OS may give the controller's UDP socket: 1..MaxControllerPort
MaxControllerPort == 1
\* Request-TW-Session timeouts tried: 1..MaxTimeout seconds
MaxTimeout == 1
\* datagrams the network may duplicate in one session
MaxDup == 1
\* largest accept octet a peer may put on the wire (0..5 are Accept values)
MaxAcceptByte == 6

(***************************************************************************)
(* Accept (src/src/twamp_control/accept.rs).                               *)
(***************************************************************************)
AcceptOk == 0
AcceptFailure == 1
AcceptInternalError == 2
AcceptNotSupported == 3
AcceptPermanentResourceLimitation == 4
AcceptTemporaryResourceLimitation == 5
Accept ==
    {AcceptOk, AcceptFailure, AcceptInternalError, AcceptNotSupported,
     AcceptPermanentResourceLimitation, AcceptTemporaryResourceLimitation}

(***************************************************************************)
(* SecurityMode (src/src/twamp_control/security_mode.rs).                  *)
(***************************************************************************)
Reserved == 0
Unauthenticated == 1
Authenticated == 2
Encrypted == 4
EncryptedControlUnauthTest == 8
SecurityMode ==
    {Reserved, Unauthenticated, Authenticated, Encrypted, EncryptedControlUnauthTest}

(***************************************************************************)
(* CommandNumber (src/src/twamp_control/command_number.rs).                *)
(***************************************************************************)
CmdForbidden == 1
CmdStartSessions == 2
CmdStopSessions == 3
CmdRequestTwSession == 5
CmdExperimentation == 6
CommandNumber ==
    {CmdForbidden, CmdStartSessions, CmdStopSessions, CmdRequestTwSession,
     CmdExperimentation}

Ports == 0..MaxPort

(***************************************************************************)
(* TWAMP-Control messages.  A wire image is the record of the fields the   *)
(* deku reader looks at; mbz is the value of the message's MBZ octets      *)
(* (0 when every MBZ bit is clear).  Fields a message does not have are 0. *)
(***************************************************************************)
ControlImage(type) ==
    [type |-> type, cmd |-> 0, mbz |-> 0, mode |-> 0, accept |-> 0, port |-> 0,
     sender_port |-> 0, receiver_port |-> 0, timeout |-> 0]

RECURSIVE BitOrModes(_)
\* fold(0, |acc, mode| acc | mode) over modes with pairwise distinct bits
BitOrModes(modes) ==
    IF modes = {} THEN 0
    ELSE LET m == CHOOSE x \in modes : TRUE
         IN  m + BitOrModes(modes \ {m})

ServerGreetingNew(modes) ==
    [ControlImage("ServerGreeting") EXCEPT !.mode = BitOrModes(modes)]

\* Ok for Reserved and Unauthenticated, Err for every other mode
SetUpResponseNew(mode) ==
    IF mode \in {Reserved, Unauthenticated}
    THEN [ok |-> TRUE, msg |-> [ControlImage("SetUpResponse") EXCEPT !.mode = mode]]
    ELSE [ok |-> FALSE, msg |-> ControlImage("SetUpResponse")]

ServerStartNew(accept) ==
    [ControlImage("ServerStart") EXCEPT !.accept = accept]

RequestTwSessionNew(sender_port, receiver_port, timeout) ==
    [ControlImage("RequestTwSession") EXCEPT
        !.cmd = CmdRequestTwSession,
        !.sender_port = sender_port,
        !.receiver_port = receiver_port,
        !.timeout = timeout]

AcceptSessionNew(accept, port) ==
    [ControlImage("AcceptSession") EXCEPT !.accept = accept, !.port = port]

StartSessionsNew ==
    [ControlImage("StartSessions") EXCEPT !.cmd = CmdStartSessions]

StartAckNew(accept) ==
    [ControlImage("StartAck") EXCEPT !.accept = accept]

StopSessionsNew(accept) ==
    [ControlImage("StopSessions") EXCEPT !.cmd = CmdStopSessions, !.accept = accept]

(***************************************************************************)
(* from_bytes of each control message: the deku assertions that can fail.  *)
(***************************************************************************)
ServerGreetingFromBytes(img) == [ok |-> img.mbz = 0, msg |-> img]

SetUpResponseFromBytes(img) == [ok |-> img.mode \in SecurityMode, msg |-> img]

ServerStartFromBytes(img) ==
    [ok |-> img.mbz = 0 /\ img.accept \in Accept, msg |-> img]

RequestTwSessionFromBytes(img) ==
    [ok |-> img.cmd = CmdRequestTwSession /\ img.mbz = 0, msg |-> img]

AcceptSessionFromBytes(img) ==
    [ok |-> img.mbz = 0 /\ img.accept \in Accept, msg |-> img]

StartSessionsFromBytes(img) ==
    [ok |-> img.cmd = CmdStartSessions /\ img.mbz = 0, msg |-> img]

\* StartAck.mbz carries no assertion
StartAckFromBytes(img) == [ok |-> img.accept \in Accept, msg |-> img]

StopSessionsFromBytes(img) ==
    [ok |-> img.cmd = CmdStopSessions /\ img.accept \in Accept /\ img.mbz = 0,
     msg |-> img]

(***************************************************************************)
(* TWAMP-Test packets, octet by octet (deku, big endian).                  *)
(***************************************************************************)
\* a faulty variant: the low octet first
LE16(v) == << v % 256, (v \div 256) % 256 >>
BE16(v) == << (v \div 256) % 256, v % 256 >>
BE32(v) == << (v \div 16777216) % 256, (v \div 65536) % 256, (v \div 256) % 256, v % 256 >>
ReadBE16(b, off) == b[off + 1] * 256 + b[off + 2]
ReadBE32(b, off) ==
    b[off + 1] * 16777216 + b[off + 2] * 65536 + b[off + 3] * 256 + b[off + 4]

Zeros(n) == [i \in 1..n |-> 0]

\* the first n octets of a zeroed receive buffer after a datagram d was copied in
RecvBuf(d, n) == [i \in 1..n |-> IF i <= Len(d) THEN d[i] ELSE 0]

\* TimeStamp::default(): the wall clock, here the clock value c
TimeStampDefault(c) ==
    [integer_part_of_seconds |-> c, fractional_part_of_seconds |-> c + 1]

TimeStampToBytes(t) ==
    BE32(t.integer_part_of_seconds) \o BE32(t.fractional_part_of_seconds)

TimeStampRead(b, off) ==
    [integer_part_of_seconds |-> ReadBE32(b, off),
     fractional_part_of_seconds |-> ReadBE32(b, off + 4)]

ErrorEstimateNew(ntp_synchronized) ==
    [s |-> IF ntp_synchronized THEN 1 ELSE 0,
     mbz |-> 0,
     scale |-> IF ntp_synchronized THEN 0 ELSE 63,
     multiplier |-> IF ntp_synchronized THEN 1 ELSE 255]

ErrorEstimateToBytes(e) == << e.s * 128 + e.mbz * 64 + e.scale, e.multiplier >>

\* bits 1 + 1 + 6, then the multiplier octet; mbz carries assert_eq 0
ErrorEstimateRead(b, off) ==
    [ok |-> (b[off + 1] \div 64) % 2 = 0,
     val |-> [s |-> b[off + 1] \div 128,
              mbz |-> (b[off + 1] \div 64) % 2,
              scale |-> b[off + 1] % 64,
              multiplier |-> b[off + 2]]]

MAX_PADDING_LENGTH == 27
TestPacketReadLen == 41
ReflectedPacketReadLen == 68

\* a faulty variant: every test packet is numbered 0
TestPacketNewUnnumbered(sequence_number, padding_length, is_ntp_synchronized, c) ==
    [sequence_number |-> 0,
     timestamp |-> TimeStampDefault(c),
     error_estimate |-> ErrorEstimateNew(is_ntp_synchronized),
     packet_padding |-> Zeros(padding_length)]

TwampTestPacketUnauthNew(sequence_number, padding_length, is_ntp_synchronized, c) ==
    [sequence_number |-> sequence_number,
     timestamp |-> TimeStampDefault(c),
     error_estimate |-> ErrorEstimateNew(is_ntp_synchronized),
     packet_padding |-> Zeros(IF padding_length > 27 THEN MAX_PADDING_LENGTH
                              ELSE padding_length)]

TwampTestPacketUnauthToBytes(p) ==
    BE32(p.sequence_number) \o TimeStampToBytes(p.timestamp)
        \o ErrorEstimateToBytes(p.error_estimate) \o p.packet_padding

\* what from_bytes gives when the octets end before the struct does
Incomplete == [ok |-> FALSE, pkt |-> [incomplete |-> TRUE]]

\* reads 4 + 8 + 2 octets and then always 27 octets of padding
TwampTestPacketUnauthFromBytes(b) ==
    IF Len(b) < TestPacketReadLen THEN Incomplete
    ELSE
    LET ee == ErrorEstimateRead(b, 12)
    IN  [ok |-> ee.ok,
         pkt |-> [sequence_number |-> ReadBE32(b, 0),
                  timestamp |-> TimeStampRead(b, 4),
                  error_estimate |-> ee.val,
                  packet_padding |-> SubSeq(b, 15, TestPacketReadLen)]]

\* a faulty variant: the reflector echoes the sender's sequence number instead
\* of counting its own
ReflectedNewEchoingSequence(seq, twamp_test_pkt, recv_ts, c) ==
    [sequence_number |-> twamp_test_pkt.sequence_number,
     timestamp |-> TimeStampDefault(c),
     error_estimate |-> ErrorEstimateNew(TRUE),
     mbz_first |-> 0,
     receive_timestamp |-> recv_ts,
     sender_sequence_number |-> twamp_test_pkt.sequence_number,
     sender_timestamp |-> twamp_test_pkt.timestamp,
     error_estimate_sender |-> twamp_test_pkt.error_estimate,
     mbz_second |-> 0,
     sender_ttl |-> 255,
     packet_padding |-> << >>]

TwampTestPacketUnauthReflectedNew(seq, twamp_test_pkt, recv_ts, c) ==
    [sequence_number |-> seq,
     timestamp |-> TimeStampDefault(c),
     error_estimate |-> ErrorEstimateNew(TRUE),
     mbz_first |-> 0,
     receive_timestamp |-> recv_ts,
     sender_sequence_number |-> twamp_test_pkt.sequence_number,
     sender_timestamp |-> twamp_test_pkt.timestamp,
     error_estimate_sender |-> twamp_test_pkt.error_estimate,
     mbz_second |-> 0,
     sender_ttl |-> 255,
     packet_padding |-> << >>]

TwampTestPacketUnauthReflectedToBytes(p) ==
    BE32(p.sequence_number) \o TimeStampToBytes(p.timestamp)
        \o ErrorEstimateToBytes(p.error_estimate) \o BE16(p.mbz_first)
        \o TimeStampToBytes(p.receive_timestamp)
        \o BE32(p.sender_sequence_number)
        \o TimeStampToBytes(p.sender_timestamp)
        \o ErrorEstimateToBytes(p.error_estimate_sender) \o BE16(p.mbz_second)
        \o << p.sender_ttl >> \o p.packet_padding

TwampTestPacketUnauthReflectedFromBytes(b) ==
    IF Len(b) < ReflectedPacketReadLen THEN Incomplete
    ELSE
    LET ee == ErrorEstimateRead(b, 12)
        ees == ErrorEstimateRead(b, 36)
    IN  [ok |-> /\ ee.ok /\ ees.ok
                /\ ReadBE16(b, 14) = 0 /\ ReadBE16(b, 38) = 0,
         pkt |-> [sequence_number |-> ReadBE32(b, 0),
                  timestamp |-> TimeStampRead(b, 4),
                  error_estimate |-> ee.val,
                  mbz_first |-> ReadBE16(b, 14),
                  receive_timestamp |-> TimeStampRead(b, 16),
                  sender_sequence_number |-> ReadBE32(b, 24),
                  sender_timestamp |-> TimeStampRead(b, 28),
                  error_estimate_sender |-> ees.val,
                  mbz_second |-> ReadBE16(b, 38),
                  sender_ttl |-> b[41],
                  packet_padding |-> SubSeq(b, 42, ReflectedPacketReadLen)]]

(***************************************************************************)
(* TWAMP-Control messages, octet by octet (deku, big endian): the structs   *)
(* with every field, their to_bytes and their from_bytes.  Octet arrays are *)
(* sequences, a u64 is the pair of its two u32 halves.                      *)
(***************************************************************************)
Slice(b, off, n) == SubSeq(b, off + 1, off + n)
U64(v) == [hi |-> 0, lo |-> v]
BE64(v) == BE32(v.hi) \o BE32(v.lo)
ReadBE64(b, off) == [hi |-> ReadBE32(b, off), lo |-> ReadBE32(b, off + 4)]

ServerGreetingSize == 64
SetUpResponseSize == 164
ServerStartSize == 48
RequestTwSessionSize == 112
AcceptSessionSize == 48
StartSessionsSize == 32
StartAckSize == 32
StopSessionsSize == 20

\* ServerGreeting::new(modes), with the random challenge and salt as inputs
WireServerGreetingNew(modes, challenge, salt) ==
    [unused |-> Zeros(12), mode |-> BitOrModes(modes), challenge |-> challenge,
     salt |-> salt, count |-> 1024, mbz |-> Zeros(12)]

WireServerGreetingToBytes(m) ==
    m.unused \o BE32(m.mode) \o m.challenge \o m.salt \o BE32(m.count) \o m.mbz

WireServerGreetingFromBytes(b) ==
    [ok |-> /\ Len(b) >= ServerGreetingSize
            /\ Slice(b, 0, 12) = Zeros(12)
            /\ Slice(b, 52, 12) = Zeros(12),
     msg |-> [unused |-> Slice(b, 0, 12), mode |-> ReadBE32(b, 12),
              challenge |-> Slice(b, 16, 16), salt |-> Slice(b, 32, 16),
              count |-> ReadBE32(b, 48), mbz |-> Slice(b, 52, 12)]]

\* SetUpResponse::new(mode): Ok for Reserved and Unauthenticated
WireSetUpResponseNew(mode) ==
    [ok |-> mode \in {Reserved, Unauthenticated},
     msg |-> [mode |-> mode, key_id |-> Zeros(80), token |-> Zeros(64),
              client_iv |-> Zeros(16)]]

WireSetUpResponseToBytes(m) == BE32(m.mode) \o m.key_id \o m.token \o m.client_iv

WireSetUpResponseFromBytes(b) ==
    [ok |-> /\ Len(b) >= SetUpResponseSize
            /\ Slice(b, 0, 3) = Zeros(3)
            /\ b[4] \in SecurityMode,
     msg |-> [mode |-> b[4], key_id |-> Slice(b, 4, 80),
              token |-> Slice(b, 84, 64), client_iv |-> Slice(b, 148, 16)]]

\* ServerStart::new(accept, start_time), start_time already a TimeStamp
WireServerStartNew(accept, start_time) ==
    [mbz_start |-> Zeros(15), accept |-> accept, server_iv |-> Zeros(16),
     start_time |-> start_time, mbz_end |-> Zeros(8)]

WireServerStartToBytes(m) ==
    m.mbz_start \o << m.accept >> \o m.server_iv \o TimeStampToBytes(m.start_time)
        \o m.mbz_end

WireServerStartFromBytes(b) ==
    [ok |-> /\ Len(b) >= ServerStartSize
            /\ Slice(b, 0, 15) = Zeros(15)
            /\ b[16] \in Accept
            /\ Slice(b, 40, 8) = Zeros(8),
     msg |-> [mbz_start |-> Slice(b, 0, 15), accept |-> b[16],
              server_iv |-> Slice(b, 16, 16), start_time |-> TimeStampRead(b, 32),
              mbz_end |-> Slice(b, 40, 8)]]

\* RequestTwSession::new(sender_address, sender_port, receiver_address,
\* receiver_port, start_time, timeout), start_time the TimeStamp that is used;
\* the u32 mbz_last is kept as its four octets
WireRequestTwSessionNew(sender_address, sender_port, receiver_address, receiver_port, start_time, timeout) ==
    [command_number |-> CmdRequestTwSession, mbz_first |-> 0, ipvn |-> 4,
     conf_sender |-> 0, conf_receiver |-> 0, number_of_schedule_slots |-> 0,
     number_of_packets |-> 0, sender_port |-> sender_port,
     receiver_port |-> receiver_port, sender_address |-> sender_address,
     sender_address_cont |-> Zeros(12), receiver_address |-> receiver_address,
     receiver_address_cont |-> Zeros(12), sid |-> Zeros(16), padding_length |-> 0,
     start_time |-> start_time, timeout |-> U64(timeout), type_p_descriptor |-> 0,
     octets_to_be_reflected |-> 0, length_of_padding_to_reflect |-> 0,
     mbz_last |-> Zeros(4), hmac |-> Zeros(16)]

WireRequestTwSessionToBytes(m) ==
    << m.command_number, m.mbz_first * 16 + m.ipvn, m.conf_sender, m.conf_receiver >>
        \o BE32(m.number_of_schedule_slots) \o BE32(m.number_of_packets)
        \o BE16(m.sender_port) \o BE16(m.receiver_port)
        \o m.sender_address \o m.sender_address_cont
        \o m.receiver_address \o m.receiver_address_cont
        \o m.sid \o BE32(m.padding_length) \o TimeStampToBytes(m.start_time)
        \o BE64(m.timeout) \o BE32(m.type_p_descriptor)
        \o BE16(m.octets_to_be_reflected) \o BE16(m.length_of_padding_to_reflect)
        \o m.mbz_last \o m.hmac

WireRequestTwSessionFromBytes(b) ==
    [ok |-> /\ Len(b) >= RequestTwSessionSize
            /\ b[1] = CmdRequestTwSession
            /\ b[2] \div 16 = 0
            /\ Slice(b, 92, 4) = Zeros(4),
     msg |-> [command_number |-> b[1], mbz_first |-> b[2] \div 16, ipvn |-> b[2] % 16,
              conf_sender |-> b[3], conf_receiver |-> b[4],
              number_of_schedule_slots |-> ReadBE32(b, 4),
              number_of_packets |-> ReadBE32(b, 8),
              sender_port |-> ReadBE16(b, 12), receiver_port |-> ReadBE16(b, 14),
              sender_address |-> Slice(b, 16, 4),
              sender_address_cont |-> Slice(b, 20, 12),
              receiver_address |-> Slice(b, 32, 4),
              receiver_address_cont |-> Slice(b, 36, 12),
              sid |-> Slice(b, 48, 16), padding_length |-> ReadBE32(b, 64),
              start_time |-> TimeStampRead(b, 68), timeout |-> ReadBE64(b, 76),
              type_p_descriptor |-> ReadBE32(b, 84),
              octets_to_be_reflected |-> ReadBE16(b, 88),
              length_of_padding_to_reflect |-> ReadBE16(b, 90),
              mbz_last |-> Slice(b, 92, 4), hmac |-> Slice(b, 96, 16)]]

\* AcceptSession::new(accept, port, reflected_octets, server_octets)
WireAcceptSessionNew(accept, port, reflected_octets, server_octets) ==
    [accept |-> accept, mbz_first |-> 0, port |-> port, sid |-> Zeros(16),
     reflected_octets |-> reflected_octets, server_octets |-> server_octets,
     mbz_second |-> Zeros(8), hmac |-> Zeros(16)]

WireAcceptSessionToBytes(m) ==
    << m.accept, m.mbz_first >> \o BE16(m.port) \o m.sid \o BE16(m.reflected_octets)
        \o BE16(m.server_octets) \o m.mbz_second \o m.hmac

WireAcceptSessionFromBytes(b) ==
    [ok |-> /\ Len(b) >= AcceptSessionSize
            /\ b[1] \in Accept
            /\ b[2] = 0
            /\ Slice(b, 24, 8) = Zeros(8),
     msg |-> [accept |-> b[1], mbz_first |-> b[2], port |-> ReadBE16(b, 2),
              sid |-> Slice(b, 4, 16), reflected_octets |-> ReadBE16(b, 20),
              server_octets |-> ReadBE16(b, 22), mbz_second |-> Slice(b, 24, 8),
              hmac |-> Slice(b, 32, 16)]]

\* StartSessions::new()
WireStartSessionsNew ==
    [command_number |-> CmdStartSessions, mbz |-> Zeros(15), hmac |-> Zeros(16)]

WireStartSessionsToBytes(m) == << m.command_number >> \o m.mbz \o m.hmac

WireStartSessionsFromBytes(b) ==
    [ok |-> /\ Len(b) >= StartSessionsSize
            /\ b[1] = CmdStartSessions
            /\ Slice(b, 1, 15) = Zeros(15),
     msg |-> [command_number |-> b[1], mbz |-> Slice(b, 1, 15),
              hmac |-> Slice(b, 16, 16)]]

\* StartAck::new(accept)
WireStartAckNew(accept) ==
    [accept |-> accept, mbz |-> Zeros(15), hmac |-> Zeros(16)]

WireStartAckToBytes(m) == << m.accept >> \o m.mbz \o m.hmac

\* the mbz field of StartAck carries no assert_eq
WireStartAckFromBytes(b) ==
    [ok |-> /\ Len(b) >= StartAckSize
            /\ b[1] \in Accept,
     msg |-> [accept |-> b[1], mbz |-> Slice(b, 1, 15), hmac |-> Slice(b, 16, 16)]]

\* StopSessions::new(accept)
WireStopSessionsNew(accept) ==
    [command_number |-> CmdStopSessions, accept |-> accept, mbz |-> 0,
     hmac |-> Zeros(16)]

WireStopSessionsToBytes(m) ==
    << m.command_number, m.accept >> \o BE16(m.mbz) \o m.hmac

\* a reader that takes any command number
WireStopSessionsAnyCommand(b) ==
    [ok |-> /\ Len(b) >= StopSessionsSize
            /\ b[1] \in CommandNumber
            /\ b[2] \in Accept
            /\ ReadBE16(b, 2) = 0,
     msg |-> [command_number |-> b[1], accept |-> b[2], mbz |-> ReadBE16(b, 2),
              hmac |-> Slice(b, 4, 16)]]

WireStopSessionsFromBytes(b) ==
    [ok |-> /\ Len(b) >= StopSessionsSize
            /\ b[1] = CmdStopSessions
            /\ b[2] \in Accept
            /\ ReadBE16(b, 2) = 0,
     msg |-> [command_number |-> b[1], accept |-> b[2], mbz |-> ReadBE16(b, 2),
              hmac |-> Slice(b, 4, 16)]]

(***************************************************************************)
(* TimeStamp arithmetic at full width.  A u32 is the pair << high, low >>  *)
(* of its 16-bit halves; an operation gives the wrapped value and whether  *)
(* it left the range of u32.                                               *)
(***************************************************************************)
U32Zero == << 0, 0 >>
U32Max == << 65535, 65535 >>

\* the u32 of a number below 2^31
U32(n) == << n \div 65536, n % 65536 >>

U32Lt(a, b) == a[1] < b[1] \/ (a[1] = b[1] /\ a[2] < b[2])

\* a + b on u32
U32Add(a, b) ==
    LET lo == a[2] + b[2]
        hi == a[1] + b[1] + lo \div 65536
    IN  [v |-> << hi % 65536, lo % 65536 >>, overflow |-> hi >= 65536]

\* a - b on u32
U32Sub(a, b) ==
    LET lo == a[2] - b[2]
        hi == a[1] - b[1] - (IF lo < 0 THEN 1 ELSE 0)
    IN  [v |-> << (hi + 65536) % 65536, (lo + 65536) % 65536 >>, overflow |-> hi < 0]

\* seconds from 1900-01-01 to 1970-01-01: 2,208,988,800 = 33706 * 2^16 + 32384
NTP_EPOCH == << 33706, 32384 >>

\* impl From<Duration> for TimeStamp; value is [secs, nanos] with secs below
\* 2^32 held as a u32, so that the sum with NTP_EPOCH is below 2^33 and
\* % 4_294_967_296 drops its carry
TimeStampFromDuration(value) ==
    LET now_since_ntp_epoch ==
            [secs |-> U32Add(value.secs, NTP_EPOCH).v, nanos |-> value.nanos]
    IN  [integer_part_of_seconds |-> now_since_ntp_epoch.secs,
         fractional_part_of_seconds |-> U32(now_since_ntp_epoch.nanos)]

\* impl Sub for TimeStamp: the wrapped result, and whether one of its -= 1,
\* += u32::MAX and two - left the range of u32 (a panic with overflow checks,
\* the wrapped value without)
sub(self, rhs) ==
    LET borrow == U32Lt(self.fractional_part_of_seconds, rhs.fractional_part_of_seconds)
        dec == U32Sub(self.integer_part_of_seconds, << 0, 1 >>)
        inc == U32Add(self.fractional_part_of_seconds, U32Max)
        integer_part_of_seconds ==
            IF borrow THEN dec.v ELSE self.integer_part_of_seconds
        fractional_part_of_seconds ==
            IF borrow THEN inc.v ELSE self.fractional_part_of_seconds
        int == U32Sub(integer_part_of_seconds, rhs.integer_part_of_seconds)
        frac == U32Sub(fractional_part_of_seconds, rhs.fractional_part_of_seconds)
    IN  [overflow |-> \/ borrow /\ (dec.overflow \/ inc.overflow)
                      \/ int.overflow \/ frac.overflow,
         value |-> [integer_part_of_seconds |-> int.v,
                    fractional_part_of_seconds |-> frac.v]]

\* impl Add for TimeStamp: overflowing_add of the fractional parts, the plain
\* + of the integer parts and the carry, wrapping_add(1) on the fractional sum;
\* the wrapped result, and whether a plain + left the range of u32
add(self, rhs) ==
    LET fractional == U32Add(self.fractional_part_of_seconds,
                             rhs.fractional_part_of_seconds)
        fractional_sum == fractional.v
        fractional_carry == fractional.overflow
        int == U32Add(self.integer_part_of_seconds, rhs.integer_part_of_seconds)
        int_carried == U32Add(int.v, << 0, IF fractional_carry THEN 1 ELSE 0 >>)
    IN  [overflow |-> int.overflow \/ int_carried.overflow,
         value |-> [integer_part_of_seconds |-> int_carried.v,
                    fractional_part_of_seconds |-> U32Add(fractional_sum, << 0, 1 >>).v]]

\* impl Sum for TimeStamp: fold from the zero TimeStamp with acc + x; the
\* overflow of every + is kept
RECURSIVE sum(_)
sum(iter) ==
    IF iter = << >>
    THEN [overflow |-> FALSE,
          value |-> [integer_part_of_seconds |-> U32Zero,
                     fractional_part_of_seconds |-> U32Zero]]
    ELSE LET acc == sum(SubSeq(iter, 1, Len(iter) - 1))
             r == add(acc.value, iter[Len(iter)])
         IN  [overflow |-> acc.overflow \/ r.overflow, value |-> r.value]

\* u32 & and | on the values of the mode field
RECURSIVE BitAnd(_, _)
BitAnd(a, b) ==
    IF a = 0 \/ b = 0 THEN 0
    ELSE (a % 2) * (b % 2) + 2 * BitAnd(a \div 2, b \div 2)

RECURSIVE BitOr(_, _)
BitOr(a, b) ==
    IF a = 0 THEN b
    ELSE IF b = 0 THEN a
    ELSE (IF a % 2 = 1 \/ b % 2 = 1 THEN 1 ELSE 0) + 2 * BitOr(a \div 2, b \div 2)

\* a has_mode without the arm for Reserved
has_mode_one_arm(self, mode) == BitAnd(self.mode, mode) = mode

\* ServerGreeting::has_mode
has_mode(self, mode) ==
    LET greeting_mode == self.mode
        mode_as_number == mode
    IN  IF mode = Reserved
        THEN BitOr(greeting_mode, mode_as_number) = mode_as_number
        ELSE BitAnd(greeting_mode, mode_as_number) = mode_as_number

\* the eight messages by name
ControlMessages ==
    {"ServerGreeting", "SetUpResponse", "ServerStart", "RequestTwSession",
     "AcceptSession", "StartSessions", "StartAck", "StopSessions"}

WireToBytes(type, m) ==
    CASE type = "ServerGreeting" -> WireServerGreetingToBytes(m)
      [] type = "SetUpResponse" -> WireSetUpResponseToBytes(m)
      [] type = "ServerStart" -> WireServerStartToBytes(m)
      [] type = "RequestTwSession" -> WireRequestTwSessionToBytes(m)
      [] type = "AcceptSession" -> WireAcceptSessionToBytes(m)
      [] type = "StartSessions" -> WireStartSessionsToBytes(m)
      [] type = "StartAck" -> WireStartAckToBytes(m)
      [] type = "StopSessions" -> WireStopSessionsToBytes(m)

WireFromBytes(type, b) ==
    CASE type = "ServerGreeting" -> WireServerGreetingFromBytes(b)
      [] type = "SetUpResponse" -> WireSetUpResponseFromBytes(b)
      [] type = "ServerStart" -> WireServerStartFromBytes(b)
      [] type = "RequestTwSession" -> WireRequestTwSessionFromBytes(b)
      [] type = "AcceptSession" -> WireAcceptSessionFromBytes(b)
      [] type = "StartSessions" -> WireStartSessionsFromBytes(b)
      [] type = "StartAck" -> WireStartAckFromBytes(b)
      [] type = "StopSessions" -> WireStopSessionsFromBytes(b)

(***************************************************************************)
(* tokio::sync::oneshot.  tx: "live" until the sender half sends ("sent")  *)
(* or is dropped unfired ("dropped"); rx: "live" until the receiver half   *)
(* has received ("done") or is dropped ("dropped").                        *)
(***************************************************************************)
Channel == [tx |-> "live", rx |-> "live", val |-> 0]

\* Sender::send succeeds unless the receiver half is gone
CanSend(ch) == ch.rx = "live"
Send(ch, v) == [ch EXCEPT !.tx = "sent", !.val = v]
\* a faulty variant: a receiver that is not woken when the sender half goes
ResolvedWhenSent(ch) == ch.tx = "sent"
\* the receiver resolves once a value was sent or the sender half is gone
Resolved(ch) == ch.tx \in {"sent", "dropped"}
\* a faulty variant: a receiver that takes a closed channel for a fired one
FiredOrClosed(ch) == ch.tx \in {"sent", "dropped"}
\* rx.await returned Ok: a value was sent
Fired(ch) == ch.tx = "sent"
Recv(ch) == [ch EXCEPT !.rx = "done"]
DropTx(ch) == IF ch.tx = "live" THEN [ch EXCEPT !.tx = "dropped"] ELSE ch
DropRx(ch) == IF ch.rx = "live" THEN [ch EXCEPT !.rx = "dropped"] ELSE ch

\* what the reflect_task ended with: nothing yet, an error of do_reflect with
\* the packet count it carries, or the abort arm of the select!
ReflectNone == [err |-> "none", n |-> 0]
ReflectAborted == [err |-> "aborted", n |-> 0]
WireConversionError == [err |-> "WireConversionError", n |-> 0]
SessionSenderWriteError(n) == [err |-> "SessionSenderWriteError", n |-> n]
\* a faulty variant: the timeout error does not carry the count
RefwaitTimeoutUncounted(n) == [err |-> "RefwaitTimeout", n |-> 0]
\* SessionReflectorError::RefwaitTimeout(self.refwait, pkts_processed_number)
RefwaitTimeout(n) == [err |-> "RefwaitTimeout", n |-> n]

(***************************************************************************)
(* State.                                                                  *)
(***************************************************************************)
VARIABLES
    \* a library function called on its own: the call, where it stands, its result
    fn_call, fn_pc, fn_ret,
    \* arguments of Controller::do_twamp, and who answers on the TCP stream
    number_of_test_packets, responder_reflect_port, controller_port,
    reflector_timeout, peer,
    \* the TCP stream: images in flight each way, and each end open or closed
    c2s, s2c, cc_stream, srv_stream,
    \* Control-Client task
    cc_pc, cc_ret, cc_read, cc_sent,
    \* one-shot channels of Controller::do_twamp
    reflector_port_ch, start_session_ch, twamp_test_complete_ch,
    \* Session-Sender task, its send_task and recv_task
    ss_pc, final_port, udp_connected, select_won, send_pc, send_i, sent_log,
    s_clock,
    recv_pc, recv_count, reflected_pkts_vec,
    \* Controller::do_twamp itself (try_join!, metrics)
    ctl_pc,
    \* UDP datagrams in flight each way, and how many the network duplicated
    net_s2r, net_r2s, dups,
    \* Server task
    srv_pc, srv_ret, srv_read, srv_sent, request_tw_session,
    \* one-shot channels of Responder::handle_controller
    req_tw_ch, ref_port_ch, start_ack_ch, stop_sessions_ch, timeout_ch,
    reflect_abort_ch,
    \* Session-Reflector task and its reflect_task
    sr_pc, sr_ret, udp_socket, refl_pc, refl_ret, pkts_processed_number,
    r_clock, refl_rx_log, refl_tx_log,
    \* Responder::handle_controller itself (try_join!)
    resp_pc,
    \* a stub peer in place of the Responder: the next image it sends
    stub_next

fnVars == << fn_call, fn_pc, fn_ret >>
cfgVars ==
    << number_of_test_packets, responder_reflect_port, controller_port,
       reflector_timeout, peer >>
tcpVars == << c2s, s2c, cc_stream, srv_stream >>
ccVars == << cc_pc, cc_ret, cc_read, cc_sent >>
ctlChans == << reflector_port_ch, start_session_ch, twamp_test_complete_ch >>
ssVars == << ss_pc, final_port, udp_connected, select_won >>
sendVars == << send_pc, send_i, sent_log, s_clock >>
recvVars == << recv_pc, recv_count, reflected_pkts_vec >>
udpVars == << net_s2r, net_r2s, dups >>
srvVars == << srv_pc, srv_ret, srv_read, srv_sent, request_tw_session >>
respChans ==
    << req_tw_ch, ref_port_ch, start_ack_ch, stop_sessions_ch, timeout_ch,
       reflect_abort_ch >>
srVars == << sr_pc, sr_ret, udp_socket >>
reflVars ==
    << refl_pc, refl_ret, pkts_processed_number, r_clock, refl_rx_log, refl_tx_log >>
controllerVars == << ccVars, ctlChans, ssVars, sendVars, recvVars, ctl_pc >>
responderVars == << srvVars, respChans, srVars, reflVars, resp_pc >>
vars ==
    << fnVars, cfgVars, tcpVars, controllerVars, udpVars, responderVars, stub_next >>

(***************************************************************************)
(* The state once Controller::do_twamp has connected the TCP stream, bound *)
(* its UDP socket, created its channels and spawned its two tasks, and     *)
(* Responder::handle_controller has done the same on the accepted stream.  *)
(***************************************************************************)
\* no library function is called on its own during a session
NoCall == [fn |-> "none", arg |-> 0]

SessionInit ==
    /\ number_of_test_packets \in 0..MaxPackets
    /\ responder_reflect_port \in Ports
    /\ controller_port \in 1..MaxControllerPort
    /\ reflector_timeout \in 1..MaxTimeout
    /\ peer \in {"responder", "stub"}
    /\ c2s = << >> /\ s2c = << >>
    /\ cc_stream = "open" /\ srv_stream = "open"
    /\ cc_pc = "read_server_greeting" /\ cc_ret = "none"
    /\ cc_read = << >> /\ cc_sent = << >>
    /\ reflector_port_ch = Channel
    /\ start_session_ch = Channel
    /\ twamp_test_complete_ch = Channel
    /\ ss_pc = "await_reflector_port" /\ final_port = 0 /\ udp_connected = -1
    /\ select_won = "none"
    /\ send_pc = "unspawned" /\ send_i = 0 /\ sent_log = << >> /\ s_clock = 1
    /\ recv_pc = "unspawned" /\ recv_count = 0 /\ reflected_pkts_vec = << >>
    /\ ctl_pc = "try_join"
    /\ net_s2r = EmptyBag /\ net_r2s = EmptyBag /\ dups = 0
    /\ srv_pc = "send_server_greeting" /\ srv_ret = "none"
    /\ srv_read = << >> /\ srv_sent = << >>
    /\ request_tw_session = ControlImage("RequestTwSession")
    /\ req_tw_ch = Channel /\ ref_port_ch = Channel /\ start_ack_ch = Channel
    /\ stop_sessions_ch = Channel /\ timeout_ch = Channel
    /\ reflect_abort_ch = Channel
    /\ sr_pc = "await_request" /\ sr_ret = "none" /\ udp_socket = 0
    /\ refl_pc = "unspawned" /\ refl_ret = ReflectNone /\ pkts_processed_number = 0
    /\ r_clock = 1 /\ refl_rx_log = << >> /\ refl_tx_log = << >>
    /\ resp_pc = "try_join"
    /\ stub_next = 1

Init ==
    /\ SessionInit
    /\ fn_call = NoCall /\ fn_pc = "none" /\ fn_ret = NoCall

(***************************************************************************)
(* The TCP stream.                                                         *)
(***************************************************************************)
\* write_all succeeds while the peer end is open; once the peer has closed
\* it either still succeeds (the octets are lost) or fails
WriteOutcomes(peer_end) == IF peer_end = "closed" THEN {TRUE, FALSE} ELSE {TRUE}

\* the stream after a successful write_all of img towards a peer end
Written(stream, peer_end, img) ==
    IF peer_end = "closed" THEN stream ELSE Append(stream, img)

\* read_exact completes when a whole image is there, or fails at end of stream
ReadReady(stream, peer_end) == Len(stream) > 0 \/ peer_end = "closed"

\* the Controller process runs until do_twamp has returned or panicked
ControllerAlive == ctl_pc \in {"try_join", "metrics"}

(***************************************************************************)
(* Control-Client: ControlClient::do_twamp_control, as the task            *)
(* Controller::do_twamp spawns.  cc_ret is what do_twamp_control returned  *)
(* ("Ok", "Err") or "panic" for an expect that failed inside it.           *)
(***************************************************************************)
\* the task ends: the stream and the channel halves it owns are dropped
cc_end(ret) ==
    /\ cc_pc' = "done"
    /\ cc_ret' = ret
    /\ cc_stream' = "closed"
    /\ reflector_port_ch' = DropTx(reflector_port_ch)
    /\ start_session_ch' = DropTx(start_session_ch)
    /\ twamp_test_complete_ch' = DropRx(twamp_test_complete_ch)

cc_frame ==
    UNCHANGED << fnVars, cfgVars, srv_stream, ssVars, sendVars, recvVars, ctl_pc, udpVars,
                 responderVars, stub_next >>

\* a send_* method: build the message, write_all it
cc_write(msg, next_pc) ==
    \E ok \in WriteOutcomes(srv_stream) :
        IF ok
        THEN /\ c2s' = Written(c2s, srv_stream, msg)
             /\ cc_sent' = Append(cc_sent, msg)
             /\ cc_pc' = next_pc
             /\ UNCHANGED << cc_ret, cc_stream, ctlChans >>
        ELSE /\ cc_end("Err")
             /\ UNCHANGED << c2s, cc_sent >>

read_server_greeting ==
    /\ ControllerAlive
    /\ cc_pc = "read_server_greeting"
    /\ ReadReady(s2c, srv_stream)
    /\ IF Len(s2c) > 0
       THEN /\ s2c' = Tail(s2c)
            /\ LET r == ServerGreetingFromBytes(Head(s2c))
               IN  IF r.ok
                   THEN /\ cc_read' = Append(cc_read, r.msg)
                        /\ cc_pc' = "send_set_up_response"
                        /\ UNCHANGED << cc_ret, cc_stream, ctlChans >>
                   ELSE \* expect("should have received valid ServerGreeting")
                        /\ cc_end("panic")
                        /\ UNCHANGED cc_read
       ELSE /\ cc_end("Err")
            /\ UNCHANGED << s2c, cc_read >>
    /\ UNCHANGED << c2s, cc_sent >>
    /\ cc_frame

send_set_up_response ==
    /\ ControllerAlive
    /\ cc_pc = "send_set_up_response"
    /\ LET set_up_response == SetUpResponseNew(Unauthenticated)
       IN  IF set_up_response.ok
           THEN cc_write(set_up_response.msg, "read_server_start")
           ELSE \* expect("SetUpResponse should be created")
                cc_end("panic") /\ UNCHANGED << c2s, cc_sent >>
    /\ UNCHANGED << s2c, cc_read >>
    /\ cc_frame

read_server_start ==
    /\ ControllerAlive
    /\ cc_pc = "read_server_start"
    /\ ReadReady(s2c, srv_stream)
    /\ IF Len(s2c) > 0
       THEN /\ s2c' = Tail(s2c)
            /\ LET r == ServerStartFromBytes(Head(s2c))
               IN  IF r.ok
                   THEN /\ cc_read' = Append(cc_read, r.msg)
                        /\ cc_pc' = "send_request_tw_session"
                        /\ UNCHANGED << cc_ret, cc_stream, ctlChans >>
                   ELSE /\ cc_end("Err")
                        /\ UNCHANGED cc_read
       ELSE /\ cc_end("Err")
            /\ UNCHANGED << s2c, cc_read >>
    /\ UNCHANGED << c2s, cc_sent >>
    /\ cc_frame

send_request_tw_session ==
    /\ ControllerAlive
    /\ cc_pc = "send_request_tw_session"
    /\ cc_write(RequestTwSessionNew(controller_port, responder_reflect_port,
                                    reflector_timeout),
                "read_accept_session")
    /\ UNCHANGED << s2c, cc_read >>
    /\ cc_frame

\* a faulty variant: the accept of Accept-Session is not looked at
accept_session_never_refused(accept_session) == FALSE

\* if accept_session.accept != Accept::Ok
accept_session_refused(accept_session) == accept_session.accept # AcceptOk

\* read_accept_session, the accept check, and reflector_port_tx.send
read_accept_session ==
    /\ ControllerAlive
    /\ cc_pc = "read_accept_session"
    /\ ReadReady(s2c, srv_stream)
    /\ IF Len(s2c) > 0
       THEN /\ s2c' = Tail(s2c)
            /\ LET r == AcceptSessionFromBytes(Head(s2c))
               IN  IF ~r.ok
                   THEN cc_end("Err") /\ UNCHANGED cc_read
                   ELSE /\ cc_read' = Append(cc_read, r.msg)
                        /\ IF accept_session_refused(r.msg)
                           THEN cc_end("Err")
                           ELSE IF ~CanSend(reflector_port_ch)
                           THEN \* expect("reflector port should be sent over channel.")
                                cc_end("panic")
                           ELSE /\ reflector_port_ch' = Send(reflector_port_ch, r.msg.port)
                                /\ cc_pc' = "send_start_sessions"
                                /\ UNCHANGED << cc_ret, cc_stream, start_session_ch,
                                                twamp_test_complete_ch >>
       ELSE /\ cc_end("Err")
            /\ UNCHANGED << s2c, cc_read >>
    /\ UNCHANGED << c2s, cc_sent >>
    /\ cc_frame

send_start_sessions ==
    /\ ControllerAlive
    /\ cc_pc = "send_start_sessions"
    /\ cc_write(StartSessionsNew, "read_start_ack")
    /\ UNCHANGED << s2c, cc_read >>
    /\ cc_frame

\* a faulty variant: the accept of Start-Ack is not looked at
start_ack_never_refused(start_ack) == FALSE

\* if start_ack.accept != Accept::Ok
start_ack_refused(start_ack) == start_ack.accept # AcceptOk

\* read_start_ack, the accept check, and start_session_tx.send
read_start_ack ==
    /\ ControllerAlive
    /\ cc_pc = "read_start_ack"
    /\ ReadReady(s2c, srv_stream)
    /\ IF Len(s2c) > 0
       THEN /\ s2c' = Tail(s2c)
            /\ LET r == StartAckFromBytes(Head(s2c))
               IN  IF ~r.ok
                   THEN cc_end("Err") /\ UNCHANGED cc_read
                   ELSE /\ cc_read' = Append(cc_read, r.msg)
                        /\ IF start_ack_refused(r.msg)
                           THEN cc_end("Err")
                           ELSE IF ~CanSend(start_session_ch)
                           THEN \* expect("StartSession signal should be sent over channel")
                                cc_end("panic")
                           ELSE /\ start_session_ch' = Send(start_session_ch, 0)
                                /\ cc_pc' = "await_test_complete"
                                /\ UNCHANGED << cc_ret, cc_stream, reflector_port_ch,
                                                twamp_test_complete_ch >>
       ELSE /\ cc_end("Err")
            /\ UNCHANGED << s2c, cc_read >>
    /\ UNCHANGED << c2s, cc_sent >>
    /\ cc_frame

\* let _ = twamp_test_complete_rx.await: the result is dropped, so a closed
\* channel resumes the Control-Client like a fired one
await_test_complete ==
    /\ ControllerAlive
    /\ cc_pc = "await_test_complete"
    /\ Resolved(twamp_test_complete_ch)
    /\ twamp_test_complete_ch' = Recv(twamp_test_complete_ch)
    /\ cc_pc' = "send_stop_sessions"
    /\ UNCHANGED << cc_ret, cc_stream, cc_read, cc_sent, reflector_port_ch,
                    start_session_ch, tcpVars >>
    /\ cc_frame

\* send_stop_sessions, then do_twamp_control returns Ok(())
send_stop_sessions ==
    /\ ControllerAlive
    /\ cc_pc = "send_stop_sessions"
    /\ \E ok \in WriteOutcomes(srv_stream) :
        IF ok
        THEN /\ c2s' = Written(c2s, srv_stream, StopSessionsNew(AcceptOk))
             /\ cc_sent' = Append(cc_sent, StopSessionsNew(AcceptOk))
             /\ cc_end("Ok")
        ELSE /\ cc_end("Err")
             /\ UNCHANGED << c2s, cc_sent >>
    /\ UNCHANGED << s2c, cc_read >>
    /\ cc_frame

(***************************************************************************)
(* Session-Sender task of Controller::do_twamp, with the send_task and the *)
(* recv_task it spawns (SessionSender::send_it and SessionSender::recv).   *)
(***************************************************************************)
\* the task ends: the channel halves it still owns are dropped
ss_end(outcome) ==
    /\ ss_pc' = outcome
    /\ reflector_port_ch' = DropRx(reflector_port_ch)
    /\ start_session_ch' = DropRx(start_session_ch)
    /\ twamp_test_complete_ch' = DropTx(twamp_test_complete_ch)

ss_frame ==
    UNCHANGED << fnVars, cfgVars, tcpVars, ccVars, ctl_pc, responderVars, stub_next >>

\* reflector_port_rx.await.unwrap()
ss_await_reflector_port ==
    /\ ControllerAlive
    /\ ss_pc = "await_reflector_port"
    /\ Resolved(reflector_port_ch)
    /\ IF Fired(reflector_port_ch)
       THEN /\ final_port' = reflector_port_ch.val
            /\ reflector_port_ch' = Recv(reflector_port_ch)
            /\ ss_pc' = "connect"
            /\ UNCHANGED << start_session_ch, twamp_test_complete_ch >>
       ELSE /\ ss_end("panicked")
            /\ UNCHANGED final_port
    /\ UNCHANGED << udp_connected, select_won, sendVars, recvVars, udpVars >>
    /\ ss_frame

\* a faulty variant: the Session-Sender connects to the port it asked for
ss_connect_requested ==
    /\ ControllerAlive
    /\ ss_pc = "connect"
    /\ \E ok \in BOOLEAN :
        IF ok
        THEN /\ udp_connected' = responder_reflect_port
             /\ ss_pc' = "await_start"
             /\ UNCHANGED ctlChans
        ELSE /\ ss_end("panicked")
             /\ UNCHANGED udp_connected
    /\ UNCHANGED << final_port, select_won, sendVars, recvVars, udpVars >>
    /\ ss_frame

\* udp_socket.connect(responder_addr, final_port).await.unwrap(); whether the
\* connect succeeds is the operating system's answer
ss_connect ==
    /\ ControllerAlive
    /\ ss_pc = "connect"
    /\ \E ok \in BOOLEAN :
        IF ok
        THEN /\ udp_connected' = final_port
             /\ ss_pc' = "await_start"
             /\ UNCHANGED ctlChans
        ELSE /\ ss_end("panicked")
             /\ UNCHANGED udp_connected
    /\ UNCHANGED << final_port, select_won, sendVars, recvVars, udpVars >>
    /\ ss_frame

\* start_session_rx.await.unwrap(), SessionSender::new, spawn of both tasks
ss_await_start ==
    /\ ControllerAlive
    /\ ss_pc = "await_start"
    /\ Resolved(start_session_ch)
    /\ IF Fired(start_session_ch)
       THEN /\ start_session_ch' = Recv(start_session_ch)
            /\ ss_pc' = "await_send_task"
            /\ send_pc' = "send_it"
            /\ recv_pc' = "recv"
            /\ UNCHANGED << reflector_port_ch, twamp_test_complete_ch >>
       ELSE /\ ss_end("panicked")
            /\ UNCHANGED << send_pc, recv_pc >>
    /\ UNCHANGED << final_port, udp_connected, select_won, send_i, sent_log, s_clock,
                    recv_count, reflected_pkts_vec, udpVars >>
    /\ ss_frame

\* one turn of the for loop of SessionSender::send_it, or its end; a failed
\* socket.send ends send_it with an error the task drops
send_it ==
    /\ ControllerAlive
    /\ send_pc = "send_it"
    /\ IF send_i < number_of_test_packets
       THEN LET twamp_test == TwampTestPacketUnauthNew(send_i, 0, TRUE, s_clock)
                encoded == TwampTestPacketUnauthToBytes(twamp_test)
            IN  \E ok \in BOOLEAN :
                    IF ok
                    THEN /\ net_s2r' = net_s2r (+) SetToBag({encoded})
                         /\ sent_log' = Append(sent_log, twamp_test)
                         /\ send_i' = send_i + 1
                         /\ s_clock' = s_clock + 1
                         /\ UNCHANGED send_pc
                    ELSE /\ send_pc' = "done"
                         /\ UNCHANGED << net_s2r, sent_log, send_i, s_clock >>
       ELSE /\ send_pc' = "done"
            /\ UNCHANGED << net_s2r, sent_log, send_i, s_clock >>
    /\ UNCHANGED << ssVars, ctlChans, recvVars, net_r2s, dups >>
    /\ ss_frame

\* one turn of the loop of SessionSender::recv: a datagram is read into a
\* zeroed buffer, parsed, pushed under the lock, counted
recv ==
    /\ ctl_pc = "try_join"
    /\ recv_pc = "recv"
    /\ \E d \in BagToSet(net_r2s) :
        LET r == TwampTestPacketUnauthReflectedFromBytes(RecvBuf(d, ReflectedPacketReadLen))
        IN  /\ net_r2s' = net_r2s (-) SetToBag({d})
            /\ IF r.ok
               THEN /\ reflected_pkts_vec' =
                        Append(reflected_pkts_vec, << r.pkt, TimeStampDefault(s_clock) >>)
                    /\ recv_count' = recv_count + 1
                    /\ recv_pc' = IF recv_count + 1 = number_of_test_packets
                                  THEN "done" ELSE "recv"
               ELSE /\ recv_pc' = "done"
                    /\ UNCHANGED << recv_count, reflected_pkts_vec >>
    /\ UNCHANGED << ssVars, ctlChans, sendVars, net_s2r, dups >>
    /\ ss_frame

\* socket.recv fails: recv returns SessionReflectorReadError(count, err), which
\* the recv_task drops, and the recv_task ends
recv_read_error ==
    /\ ctl_pc = "try_join"
    /\ recv_pc = "recv"
    /\ recv_pc' = "done"
    /\ UNCHANGED << ssVars, ctlChans, sendVars, recv_count, reflected_pkts_vec, udpVars >>
    /\ ss_frame

\* send_task.await.unwrap()
ss_join_send_task ==
    /\ ControllerAlive
    /\ ss_pc = "await_send_task"
    /\ send_pc = "done"
    /\ ss_pc' = "select"
    /\ UNCHANGED << final_port, udp_connected, select_won, ctlChans, sendVars, recvVars,
                    udpVars >>
    /\ ss_frame

\* a faulty variant: the Session-Sender task ends without signalling
ss_forgets_test_complete == ss_end("done")

\* after the select!: twamp_test_complete_tx.send(()).unwrap()
ss_test_complete ==
    IF CanSend(twamp_test_complete_ch)
    THEN /\ twamp_test_complete_ch' = Send(twamp_test_complete_ch, 0)
         /\ ss_pc' = "done"
         /\ UNCHANGED << reflector_port_ch, start_session_ch >>
    ELSE ss_end("panicked")

\* select!: sleep(stop_session_sleep) completes first
ss_select_sleep ==
    /\ ControllerAlive
    /\ ss_pc = "select"
    /\ select_won' = "sleep"
    /\ ss_test_complete
    /\ UNCHANGED << final_port, udp_connected, sendVars, recvVars, udpVars >>
    /\ ss_frame

\* select!: recv_task completes first
ss_select_recv_task ==
    /\ ControllerAlive
    /\ ss_pc = "select"
    /\ recv_pc = "done"
    /\ select_won' = "recv_task"
    /\ ss_test_complete
    /\ UNCHANGED << final_port, udp_connected, sendVars, recvVars, udpVars >>
    /\ ss_frame

(***************************************************************************)
(* Controller::do_twamp after the spawns: try_join!(..).unwrap(), then the *)
(* metrics under the lock of the reflected-packets list.                   *)
(***************************************************************************)
\* the spawned Control-Client task unwraps the result of do_twamp_control
cc_task_panicked == cc_pc = "done" /\ cc_ret \in {"Err", "panic"}
cc_task_finished == cc_pc = "done" /\ cc_ret = "Ok"

ctl_frame ==
    UNCHANGED << fnVars, cfgVars, c2s, s2c, srv_stream, ccVars, ctlChans, ssVars, sendVars,
                 recvVars, udpVars, responderVars, stub_next >>

\* a panic of do_twamp ends the process, which closes its TCP stream
ctl_try_join ==
    /\ ctl_pc = "try_join"
    /\ \/ /\ cc_task_panicked \/ ss_pc = "panicked"
          /\ ctl_pc' = "panicked"
          /\ cc_stream' = "closed"
       \/ /\ cc_task_finished /\ ss_pc = "done"
          /\ ctl_pc' = "metrics"
          /\ UNCHANGED cc_stream
    /\ ctl_frame

ctl_get_metrics ==
    /\ ctl_pc = "metrics"
    /\ ctl_pc' = "returned"
    /\ UNCHANGED cc_stream
    /\ ctl_frame

(***************************************************************************)
(* Server: Server::handle_control_client, as the task                      *)
(* Responder::handle_controller spawns.                                    *)
(***************************************************************************)
\* the task ends: the stream and the channel halves it owns are dropped
srv_end(ret) ==
    /\ srv_pc' = "done"
    /\ srv_ret' = ret
    /\ srv_stream' = "closed"
    /\ req_tw_ch' = DropTx(req_tw_ch)
    /\ ref_port_ch' = DropRx(ref_port_ch)
    /\ start_ack_ch' = DropTx(start_ack_ch)
    /\ stop_sessions_ch' = DropTx(stop_sessions_ch)
    /\ timeout_ch' = DropTx(timeout_ch)

srvChans == << req_tw_ch, ref_port_ch, start_ack_ch, stop_sessions_ch, timeout_ch >>

srv_frame ==
    UNCHANGED << fnVars, cfgVars, cc_stream, controllerVars, udpVars, reflect_abort_ch,
                 srVars, reflVars, resp_pc, stub_next >>

\* a read_* method: read_exact, from_bytes
srv_read_msg(r, next_pc) ==
    IF Len(c2s) > 0
    THEN /\ c2s' = Tail(c2s)
         /\ IF r.ok
            THEN /\ srv_read' = Append(srv_read, r.msg)
                 /\ srv_pc' = next_pc
                 /\ UNCHANGED << srv_ret, srv_stream, srvChans >>
            ELSE /\ srv_end("Err")
                 /\ UNCHANGED srv_read
    ELSE /\ srv_end("Err")
         /\ UNCHANGED << c2s, srv_read >>

\* a faulty variant: the Server does not move on after a write
srv_write_again(msg, next_pc) ==
    \E ok \in WriteOutcomes(cc_stream) :
        IF ok
        THEN /\ s2c' = Written(s2c, cc_stream, msg)
             /\ srv_sent' = Append(srv_sent, msg)
             /\ UNCHANGED << srv_pc, srv_ret, srv_stream, srvChans >>
        ELSE /\ srv_end("Err")
             /\ UNCHANGED << s2c, srv_sent >>

\* a send_* method that fires no signal: build the message, write_all it
srv_write(msg, next_pc) ==
    \E ok \in WriteOutcomes(cc_stream) :
        IF ok
        THEN /\ s2c' = Written(s2c, cc_stream, msg)
             /\ srv_sent' = Append(srv_sent, msg)
             /\ srv_pc' = next_pc
             /\ UNCHANGED << srv_ret, srv_stream, srvChans >>
        ELSE /\ srv_end("Err")
             /\ UNCHANGED << s2c, srv_sent >>

send_server_greeting ==
    /\ peer = "responder"
    /\ srv_pc = "send_server_greeting"
    /\ srv_write(ServerGreetingNew({Unauthenticated}), "read_set_up_response")
    /\ UNCHANGED << c2s, srv_read, request_tw_session >>
    /\ srv_frame

read_set_up_response ==
    /\ peer = "responder"
    /\ srv_pc = "read_set_up_response"
    /\ ReadReady(c2s, cc_stream)
    /\ srv_read_msg(SetUpResponseFromBytes(Head(c2s)), "send_server_start")
    /\ UNCHANGED << s2c, srv_sent, request_tw_session >>
    /\ srv_frame

send_server_start ==
    /\ peer = "responder"
    /\ srv_pc = "send_server_start"
    /\ srv_write(ServerStartNew(AcceptOk), "read_request_tw_session")
    /\ UNCHANGED << c2s, srv_read, request_tw_session >>
    /\ srv_frame

\* read_request_tw_session, then req_tw_tx.send(request_tw_session.clone())
read_request_tw_session ==
    /\ peer = "responder"
    /\ srv_pc = "read_request_tw_session"
    /\ ReadReady(c2s, cc_stream)
    /\ IF Len(c2s) > 0
       THEN /\ c2s' = Tail(c2s)
            /\ LET r == RequestTwSessionFromBytes(Head(c2s))
               IN  IF ~r.ok
                   THEN srv_end("Err") /\ UNCHANGED << srv_read, request_tw_session >>
                   ELSE /\ srv_read' = Append(srv_read, r.msg)
                        /\ request_tw_session' = r.msg
                        /\ IF CanSend(req_tw_ch)
                           THEN /\ req_tw_ch' = Send(req_tw_ch, r.msg)
                                /\ srv_pc' = "await_ref_port"
                                /\ UNCHANGED << srv_ret, srv_stream, ref_port_ch,
                                                start_ack_ch, stop_sessions_ch,
                                                timeout_ch >>
                           ELSE \* expect("RequestTwSession should be sent over channel.")
                                srv_end("panic")
       ELSE /\ srv_end("Err")
            /\ UNCHANGED << c2s, srv_read, request_tw_session >>
    /\ UNCHANGED << s2c, srv_sent >>
    /\ srv_frame

\* ref_port_rx.await.expect("should have received the final port ...")
srv_await_ref_port ==
    /\ peer = "responder"
    /\ srv_pc = "await_ref_port"
    /\ Resolved(ref_port_ch)
    /\ IF Fired(ref_port_ch)
       THEN /\ ref_port_ch' = Recv(ref_port_ch)
            /\ srv_pc' = "send_accept_session"
            /\ UNCHANGED << srv_ret, srv_stream, req_tw_ch, start_ack_ch,
                            stop_sessions_ch, timeout_ch >>
       ELSE srv_end("panic")
    /\ UNCHANGED << c2s, s2c, srv_read, srv_sent, request_tw_session >>
    /\ srv_frame

\* a faulty variant: the Server answers with the port that was asked for
requested_port_srv == request_tw_session.receiver_port

\* let final_port = ref_port_rx.await.expect(..): the port the reflector reported
final_port_srv == ref_port_ch.val

\* a faulty variant: the Server forwards another field of the request
timeout_from_port == request_tw_session.receiver_port

\* timeout_tx.send(request_tw_session.timeout): the value the Server forwards
timeout_srv == request_tw_session.timeout

\* send_accept_session(final_port), then timeout_tx.send(request.timeout)
send_accept_session ==
    /\ peer = "responder"
    /\ srv_pc = "send_accept_session"
    /\ \E ok \in WriteOutcomes(cc_stream) :
        IF ~ok
        THEN srv_end("Err") /\ UNCHANGED << s2c, srv_sent >>
        ELSE /\ s2c' = Written(s2c, cc_stream, AcceptSessionNew(AcceptOk, final_port_srv))
             /\ srv_sent' = Append(srv_sent, AcceptSessionNew(AcceptOk, final_port_srv))
             /\ IF CanSend(timeout_ch)
                THEN /\ timeout_ch' = Send(timeout_ch, timeout_srv)
                     /\ srv_pc' = "read_start_sessions"
                     /\ UNCHANGED << srv_ret, srv_stream, req_tw_ch, ref_port_ch,
                                     start_ack_ch, stop_sessions_ch >>
                ELSE \* expect("timeout should be sent over channel.")
                     srv_end("panic")
    /\ UNCHANGED << c2s, srv_read, request_tw_session >>
    /\ srv_frame

read_start_sessions ==
    /\ peer = "responder"
    /\ srv_pc = "read_start_sessions"
    /\ ReadReady(c2s, cc_stream)
    /\ srv_read_msg(StartSessionsFromBytes(Head(c2s)), "send_start_ack")
    /\ UNCHANGED << s2c, srv_sent, request_tw_session >>
    /\ srv_frame

\* send_start_ack, then start_ack_tx.send(())
send_start_ack ==
    /\ peer = "responder"
    /\ srv_pc = "send_start_ack"
    /\ \E ok \in WriteOutcomes(cc_stream) :
        IF ~ok
        THEN srv_end("Err") /\ UNCHANGED << s2c, srv_sent >>
        ELSE /\ s2c' = Written(s2c, cc_stream, StartAckNew(AcceptOk))
             /\ srv_sent' = Append(srv_sent, StartAckNew(AcceptOk))
             /\ IF CanSend(start_ack_ch)
                THEN /\ start_ack_ch' = Send(start_ack_ch, 0)
                     /\ srv_pc' = "read_stop_sessions"
                     /\ UNCHANGED << srv_ret, srv_stream, req_tw_ch, ref_port_ch,
                                     stop_sessions_ch, timeout_ch >>
                ELSE \* expect("StartAck should be sent over channel")
                     srv_end("panic")
    /\ UNCHANGED << c2s, srv_read, request_tw_session >>
    /\ srv_frame

\* read_stop_sessions, then stop_session_tx.send(()), then Ok(())
read_stop_sessions ==
    /\ peer = "responder"
    /\ srv_pc = "read_stop_sessions"
    /\ ReadReady(c2s, cc_stream)
    /\ IF Len(c2s) > 0
       THEN /\ c2s' = Tail(c2s)
            /\ LET r == StopSessionsFromBytes(Head(c2s))
               IN  IF ~r.ok
                   THEN srv_end("Err") /\ UNCHANGED srv_read
                   ELSE /\ srv_read' = Append(srv_read, r.msg)
                        /\ IF CanSend(stop_sessions_ch)
                           THEN /\ stop_sessions_ch' = Send(stop_sessions_ch, 0)
                                /\ srv_pc' = "done"
                                /\ srv_ret' = "Ok"
                                /\ srv_stream' = "closed"
                                /\ UNCHANGED << req_tw_ch, ref_port_ch, start_ack_ch,
                                                timeout_ch >>
                           ELSE \* expect("StopSession should be sent over channel.")
                                srv_end("panic")
       ELSE /\ srv_end("Err")
            /\ UNCHANGED << c2s, srv_read >>
    /\ UNCHANGED << s2c, srv_sent, request_tw_session >>
    /\ srv_frame

(***************************************************************************)
(* Session-Reflector task of Responder::handle_controller, and the         *)
(* reflect_task it spawns around SessionReflector::do_reflect.             *)
(***************************************************************************)
\* the task ends: the channel halves it still owns are dropped; abort_ch is
\* what becomes of the abort channel
sr_end(ret, abort_ch) ==
    /\ sr_pc' = "done"
    /\ sr_ret' = ret
    /\ req_tw_ch' = DropRx(req_tw_ch)
    /\ ref_port_ch' = DropTx(ref_port_ch)
    /\ start_ack_ch' = DropRx(start_ack_ch)
    /\ stop_sessions_ch' = DropRx(stop_sessions_ch)
    /\ timeout_ch' = DropRx(timeout_ch)
    /\ reflect_abort_ch' = abort_ch

sr_frame ==
    UNCHANGED << fnVars, cfgVars, tcpVars, controllerVars, udpVars, srvVars, resp_pc,
                 stub_next >>

\* UdpSocket::bind: the port bound, or -1 for an error; port 0 asks the
\* operating system for any port
BindOutcomes(port) == IF port = 0 THEN (1..MaxPort) \cup {-1} ELSE {port, -1}

\* req_tw_rx.await.unwrap()
sr_await_request ==
    /\ peer = "responder"
    /\ sr_pc = "await_request"
    /\ Resolved(req_tw_ch)
    /\ IF Fired(req_tw_ch)
       THEN /\ req_tw_ch' = Recv(req_tw_ch)
            /\ sr_pc' = "bind"
            /\ UNCHANGED << sr_ret, ref_port_ch, start_ack_ch, stop_sessions_ch,
                            timeout_ch, reflect_abort_ch >>
       ELSE sr_end("panic", DropTx(reflect_abort_ch))
    /\ UNCHANGED << udp_socket, reflVars >>
    /\ sr_frame

\* bind to the requested port, on an error bind to port 0 and unwrap; then
\* ref_port_tx.send(local_addr_port).unwrap()
sr_bind ==
    /\ peer = "responder"
    /\ sr_pc = "bind"
    /\ \E first \in BindOutcomes(req_tw_ch.val.receiver_port) :
       \E second \in BindOutcomes(0) :
        LET local_addr_port == IF first # -1 THEN first ELSE second
        IN  /\ first # -1 => second = -1
            /\ IF local_addr_port # -1 /\ CanSend(ref_port_ch)
               THEN /\ udp_socket' = local_addr_port
                    /\ ref_port_ch' = Send(ref_port_ch, local_addr_port)
                    /\ sr_pc' = "await_start_ack"
                    /\ UNCHANGED << sr_ret, req_tw_ch, start_ack_ch, stop_sessions_ch,
                                    timeout_ch, reflect_abort_ch >>
               ELSE /\ sr_end("panic", DropTx(reflect_abort_ch))
                    /\ UNCHANGED udp_socket
    /\ UNCHANGED reflVars
    /\ sr_frame

\* a faulty variant: the reflect_task is spawned without awaiting start_ack_rx
sr_spawn_unawaited ==
    /\ peer = "responder"
    /\ sr_pc = "await_start_ack"
    /\ sr_pc' = "select"
    /\ refl_pc' = "do_reflect"
    /\ UNCHANGED << sr_ret, respChans, udp_socket, refl_ret, pkts_processed_number,
                    r_clock, refl_rx_log, refl_tx_log >>
    /\ sr_frame

\* start_ack_rx.await.unwrap(), SessionReflector::new(..)?, spawn reflect_task
sr_await_start_ack ==
    /\ peer = "responder"
    /\ sr_pc = "await_start_ack"
    /\ Resolved(start_ack_ch)
    /\ IF Fired(start_ack_ch)
       THEN \E connected \in BOOLEAN :
            IF connected
            THEN /\ start_ack_ch' = Recv(start_ack_ch)
                 /\ sr_pc' = "select"
                 /\ refl_pc' = "do_reflect"
                 /\ UNCHANGED << sr_ret, req_tw_ch, ref_port_ch, stop_sessions_ch,
                                 timeout_ch, reflect_abort_ch >>
            ELSE /\ sr_end("Err", DropTx(reflect_abort_ch))
                 /\ UNCHANGED refl_pc
       ELSE /\ sr_end("panic", DropTx(reflect_abort_ch))
            /\ UNCHANGED refl_pc
    /\ UNCHANGED << udp_socket, refl_ret, pkts_processed_number, r_clock,
                    refl_rx_log, refl_tx_log >>
    /\ sr_frame

refl_frame ==
    UNCHANGED << fnVars, cfgVars, tcpVars, controllerVars, srvVars, srVars, resp_pc,
                 stub_next, req_tw_ch, ref_port_ch, start_ack_ch, stop_sessions_ch,
                 timeout_ch >>

\* one turn of the loop of do_reflect in which a datagram arrived in time
do_reflect ==
    /\ peer = "responder"
    /\ refl_pc = "do_reflect"
    /\ \E d \in BagToSet(net_s2r) :
        LET recv_timestamp == TimeStampDefault(r_clock)
            r == TwampTestPacketUnauthFromBytes(RecvBuf(d, TestPacketReadLen))
            pkt_reflected ==
                TwampTestPacketUnauthReflectedNew(pkts_processed_number, r.pkt,
                                                  recv_timestamp, r_clock + 1)
            encoded == TwampTestPacketUnauthReflectedToBytes(pkt_reflected)
        IN  /\ net_s2r' = net_s2r (-) SetToBag({d})
            /\ refl_rx_log' = Append(refl_rx_log, d)
            /\ IF ~r.ok
               THEN /\ refl_pc' = "done"
                    /\ refl_ret' = WireConversionError
                    /\ reflect_abort_ch' = DropRx(reflect_abort_ch)
                    /\ UNCHANGED << net_r2s, refl_tx_log, pkts_processed_number, r_clock >>
               ELSE \E ok \in BOOLEAN :
                    IF ok
                    THEN /\ net_r2s' = net_r2s (+) SetToBag({encoded})
                         /\ refl_tx_log' = Append(refl_tx_log, encoded)
                         /\ pkts_processed_number' = pkts_processed_number + 1
                         /\ r_clock' = r_clock + 2
                         /\ UNCHANGED << refl_pc, refl_ret, reflect_abort_ch >>
                    ELSE /\ refl_pc' = "done"
                         /\ refl_ret' = SessionSenderWriteError(pkts_processed_number)
                         /\ reflect_abort_ch' = DropRx(reflect_abort_ch)
                         /\ UNCHANGED << net_r2s, refl_tx_log, pkts_processed_number,
                                         r_clock >>
    /\ UNCHANGED dups
    /\ refl_frame

\* no datagram within refwait seconds: do_reflect returns
\* RefwaitTimeout(refwait, pkts_processed_number) and the reflect_task ends
refwait_timeout ==
    /\ peer = "responder"
    /\ refl_pc = "do_reflect"
    /\ refl_pc' = "done"
    /\ refl_ret' = RefwaitTimeout(pkts_processed_number)
    /\ reflect_abort_ch' = DropRx(reflect_abort_ch)
    /\ UNCHANGED << pkts_processed_number, r_clock, refl_rx_log, refl_tx_log, udpVars >>
    /\ refl_frame

\* the other arm of the select! of the reflect_task: reflect_abort_rx resolves
reflect_abort ==
    /\ peer = "responder"
    /\ refl_pc = "do_reflect"
    /\ Resolved(reflect_abort_ch)
    /\ refl_pc' = "done"
    /\ refl_ret' = ReflectAborted
    /\ reflect_abort_ch' = Recv(reflect_abort_ch)
    /\ UNCHANGED << pkts_processed_number, r_clock, refl_rx_log, refl_tx_log, udpVars >>
    /\ refl_frame

\* select! of the Session-Reflector task: the reflect_task has ended
sr_select_reflect_task ==
    /\ peer = "responder"
    /\ sr_pc = "select"
    /\ refl_pc = "done"
    /\ sr_end("Ok", DropTx(reflect_abort_ch))
    /\ UNCHANGED << udp_socket, reflVars >>
    /\ sr_frame

\* select! of the Session-Reflector task: stop_sessions_rx resolves
sr_select_stop_sessions ==
    /\ peer = "responder"
    /\ sr_pc = "select"
    /\ Resolved(stop_sessions_ch)
    /\ stop_sessions_ch' = Recv(stop_sessions_ch)
    /\ sr_pc' = "await_timeout"
    /\ UNCHANGED << sr_ret, udp_socket, req_tw_ch, ref_port_ch, start_ack_ch,
                    timeout_ch, reflect_abort_ch, reflVars >>
    /\ sr_frame

\* timeout_rx.await.unwrap()
sr_await_timeout ==
    /\ peer = "responder"
    /\ sr_pc = "await_timeout"
    /\ Resolved(timeout_ch)
    /\ IF Fired(timeout_ch)
       THEN /\ timeout_ch' = Recv(timeout_ch)
            /\ sr_pc' = "sleep"
            /\ UNCHANGED << sr_ret, req_tw_ch, ref_port_ch, start_ack_ch,
                            stop_sessions_ch, reflect_abort_ch >>
       ELSE sr_end("panic", DropTx(reflect_abort_ch))
    /\ UNCHANGED << udp_socket, reflVars >>
    /\ sr_frame

\* sleep(timeout) is over: reflect_abort_tx.send(()).unwrap(), then Ok(())
sr_sleep_over ==
    /\ peer = "responder"
    /\ sr_pc = "sleep"
    /\ IF CanSend(reflect_abort_ch)
       THEN sr_end("Ok", Send(reflect_abort_ch, 0))
       ELSE sr_end("panic", DropTx(reflect_abort_ch))
    /\ UNCHANGED << udp_socket, reflVars >>
    /\ sr_frame

(***************************************************************************)
(* Responder::handle_controller after the spawns: try_join!(..).expect(..) *)
(* and the two results.                                                    *)
(***************************************************************************)
resp_try_join ==
    /\ peer = "responder"
    /\ resp_pc = "try_join"
    /\ \/ /\ srv_ret = "panic" \/ sr_ret = "panic"
          /\ resp_pc' = "panicked"
       \/ /\ srv_pc = "done" /\ sr_pc = "done"
          /\ srv_ret # "panic" /\ sr_ret # "panic"
          /\ resp_pc' = IF srv_ret = "Err" \/ sr_ret = "Err" THEN "Err" ELSE "Ok"
    /\ UNCHANGED << fnVars, cfgVars, tcpVars, controllerVars, udpVars, srvVars, respChans,
                    srVars, reflVars, stub_next >>

(***************************************************************************)
(* The network and a peer that is not this Responder.                      *)
(***************************************************************************)
\* largest mode bitmap and largest MBZ value a stub puts on the wire
MaxMode == 1
MaxMbz == 1

\* the accept bytes a stub writes: Ok, the first and the last refusal, and a
\* byte that is no Accept value
StubAccepts ==
    {AcceptOk, AcceptFailure, AcceptTemporaryResourceLimitation, MaxAcceptByte}

\* the images a stub may send as the k-th server message
StubImages(k) ==
    IF k = 1
    THEN { [ControlImage("ServerGreeting") EXCEPT !.mbz = z, !.mode = m] :
             z \in 0..MaxMbz, m \in 0..MaxMode }
    ELSE IF k = 2
    THEN { [ControlImage("ServerStart") EXCEPT !.mbz = z, !.accept = a] :
             z \in 0..MaxMbz, a \in StubAccepts }
    ELSE IF k = 3
    THEN { [ControlImage("AcceptSession") EXCEPT !.mbz = z, !.accept = a, !.port = q] :
             z \in 0..MaxMbz, a \in StubAccepts, q \in Ports }
    ELSE { [ControlImage("StartAck") EXCEPT !.mbz = z, !.accept = a] :
             z \in 0..MaxMbz, a \in StubAccepts }

net_frame ==
    UNCHANGED << fnVars, cfgVars, controllerVars, responderVars >>

\* a stub server writes its next image once the previous one was read
stub_send ==
    /\ peer = "stub"
    /\ srv_stream = "open"
    /\ stub_next <= 4
    /\ Len(s2c) = 0
    /\ \E img \in StubImages(stub_next) : s2c' = Written(s2c, cc_stream, img)
    /\ stub_next' = stub_next + 1
    /\ UNCHANGED << c2s, cc_stream, srv_stream, udpVars >>
    /\ net_frame

\* a stub server closes the connection
stub_close ==
    /\ peer = "stub"
    /\ srv_stream = "open"
    /\ srv_stream' = "closed"
    /\ UNCHANGED << c2s, s2c, cc_stream, stub_next, udpVars >>
    /\ net_frame

\* UDP may deliver in any order, never deliver, and duplicate
net_dup_test ==
    /\ dups < MaxDup
    /\ \E d \in BagToSet(net_s2r) : net_s2r' = net_s2r (+) SetToBag({d})
    /\ dups' = dups + 1
    /\ UNCHANGED << tcpVars, net_r2s, stub_next >>
    /\ net_frame

net_dup_reflected ==
    /\ dups < MaxDup
    /\ \E d \in BagToSet(net_r2s) : net_r2s' = net_r2s (+) SetToBag({d})
    /\ dups' = dups + 1
    /\ UNCHANGED << tcpVars, net_s2r, stub_next >>
    /\ net_frame

(***************************************************************************)
(* The system.                                                             *)
(***************************************************************************)
Next ==
    \/ read_server_greeting
    \/ send_set_up_response
    \/ read_server_start
    \/ send_request_tw_session
    \/ read_accept_session
    \/ send_start_sessions
    \/ read_start_ack
    \/ await_test_complete
    \/ send_stop_sessions
    \/ ss_await_reflector_port
    \/ ss_connect
    \/ ss_await_start
    \/ send_it
    \/ recv
    \/ recv_read_error
    \/ ss_join_send_task
    \/ ss_select_sleep
    \/ ss_select_recv_task
    \/ ctl_try_join
    \/ ctl_get_metrics
    \/ send_server_greeting
    \/ read_set_up_response
    \/ send_server_start
    \/ read_request_tw_session
    \/ srv_await_ref_port
    \/ send_accept_session
    \/ read_start_sessions
    \/ send_start_ack
    \/ read_stop_sessions
    \/ sr_await_request
    \/ sr_bind
    \/ sr_await_start_ack
    \/ do_reflect
    \/ refwait_timeout
    \/ reflect_abort
    \/ sr_select_reflect_task
    \/ sr_select_stop_sessions
    \/ sr_await_timeout
    \/ sr_sleep_over
    \/ resp_try_join
    \/ stub_send
    \/ stub_close
    \/ net_dup_test
    \/ net_dup_reflected

Spec == Init /\ [][Next]_vars

(***************************************************************************)
(* Properties.                                                             *)
(***************************************************************************)
\* the message types of a log, in order
Types(log) == [i \in 1..Len(log) |-> log[i].type]
IsPrefix(s, t) == Len(s) <= Len(t) /\ \A i \in 1..Len(s) : s[i] = t[i]
\* a log holds a message of this type / of this type with a refusing accept
Holds(log, type) == \E i \in 1..Len(log) : log[i].type = type
HoldsRefused(log, type) ==
    \E i \in 1..Len(log) : log[i].type = type /\ log[i].accept # AcceptOk
HoldsOk(log, type) ==
    \E i \in 1..Len(log) : log[i].type = type /\ log[i].accept = AcceptOk

\* every server message the Control-Client has read so far is valid and Ok,
\* and the ServerGreeting offers the unauthenticated mode
ValidTranscript ==
    \A i \in 1..Len(cc_read) :
        /\ cc_read[i].accept = AcceptOk
        /\ cc_read[i].mbz = 0
        /\ cc_read[i].type = "ServerGreeting" =>
              (cc_read[i].mode \div Unauthenticated) % 2 = 1

\* what do_twamp_control is to emit, in order
ExpectedClientMessages ==
    << SetUpResponseNew(Unauthenticated).msg,
       RequestTwSessionNew(controller_port, responder_reflect_port, reflector_timeout),
       StartSessionsNew,
       StopSessionsNew(AcceptOk) >>

\* C1: on a valid server transcript the Control-Client emits exactly
\* Set-Up-Response(Unauthenticated), Request-TW-Session, Start-Sessions and
\* Stop-Sessions(Ok), in this order, each only after the server message before
\* it was read, and Stop-Sessions only after the test_complete signal was fired.
C1_ClientEmitsInOrderAfterSignal ==
    ValidTranscript =>
        /\ IsPrefix(cc_sent, ExpectedClientMessages)
        /\ Len(cc_sent) <= Len(cc_read)
        /\ Len(cc_sent) = 4 => Fired(twamp_test_complete_ch)

\* C2: the Server emits ServerGreeting, ServerStart, Accept-Session and
\* Start-Ack in this order and once each, each of the last three only after
\* the client message before it was read, and reads Stop-Sessions after them.
C2_ServerEmitsInOrder ==
    /\ IsPrefix(Types(srv_sent),
                << "ServerGreeting", "ServerStart", "AcceptSession", "StartAck" >>)
    /\ IsPrefix(Types(srv_read),
                << "SetUpResponse", "RequestTwSession", "StartSessions", "StopSessions" >>)
    /\ Len(srv_sent) <= Len(srv_read) + 1
    /\ Len(srv_read) <= Len(srv_sent)

C2_Witness ==
    /\ Len(srv_sent) = 4
    /\ Len(srv_read) = 4
    /\ srv_ret = "Ok"

\* C3: the Session-Sender has started no send loop and transmitted no test
\* packet unless the Control-Client has read a Start-Ack with accept Ok and
\* fired the start signal.
C3_NoTestPacketBeforeStart ==
    (send_pc # "unspawned" \/ sent_log # << >> \/ net_s2r # EmptyBag) =>
        /\ HoldsOk(cc_read, "StartAck")
        /\ Fired(start_session_ch)

C3_Witness ==
    /\ Len(sent_log) >= 1
    /\ Fired(start_session_ch)

\* C4: the Session-Reflector has entered no reflect loop and reflected no test
\* packet unless the Server has read Start-Sessions, written Start-Ack and
\* fired the start_ack_sent signal.
C4_NoReflectionBeforeStartAck ==
    (refl_pc # "unspawned" \/ refl_rx_log # << >> \/ refl_tx_log # << >>
        \/ net_r2s # EmptyBag) =>
        /\ Holds(srv_read, "StartSessions")
        /\ Holds(srv_sent, "StartAck")
        /\ Fired(start_ack_ch)

C4_Witness ==
    /\ Len(refl_tx_log) >= 1
    /\ Fired(start_ack_ch)

\* C5: the Session-Sender's UDP socket is connected only once the
\* reflector_port signal has fired, and to the port of the Accept-Session the
\* Control-Client read.
C5_ConnectsToAcceptedPort ==
    udp_connected # -1 =>
        /\ Fired(reflector_port_ch)
        /\ \E i \in 1..Len(cc_read) :
              cc_read[i].type = "AcceptSession" /\ cc_read[i].port = udp_connected

C5_Witness ==
    /\ udp_connected # -1
    /\ udp_connected # responder_reflect_port
    /\ HoldsOk(cc_read, "AcceptSession")

\* C6: an Accept-Session the Server has sent carries the port the
\* Session-Reflector bound, and was sent after the reflector reported it.
C6_AcceptSessionCarriesBoundPort ==
    \A i \in 1..Len(srv_sent) :
        srv_sent[i].type = "AcceptSession" =>
            /\ Fired(ref_port_ch)
            /\ udp_socket # 0
            /\ srv_sent[i].port = udp_socket

\* the requested port could not be bound and the reflector fell back
C6_Witness ==
    /\ Holds(srv_sent, "AcceptSession")
    /\ request_tw_session.receiver_port # 0
    /\ udp_socket # request_tw_session.receiver_port
    /\ Fired(ref_port_ch)

\* the i-th datagram do_reflect sent and the i-th it received, decoded
ReflectedAt(i) ==
    TwampTestPacketUnauthReflectedFromBytes(
        RecvBuf(refl_tx_log[i], ReflectedPacketReadLen)).pkt
ReceivedAt(i) ==
    TwampTestPacketUnauthFromBytes(RecvBuf(refl_rx_log[i], TestPacketReadLen)).pkt

\* C7: the i-th reflected packet (from 0) has sequence_number i and the
\* sender_sequence_number, sender_timestamp and error_estimate_sender of the
\* i-th test packet received.
C7_ReflectedPairsWithReceived ==
    /\ Len(refl_tx_log) <= Len(refl_rx_log)
    /\ Len(refl_tx_log) = pkts_processed_number
    /\ \A i \in 1..Len(refl_tx_log) :
        /\ ReflectedAt(i).sequence_number = i - 1
        /\ ReflectedAt(i).sender_sequence_number = ReceivedAt(i).sequence_number
        /\ ReflectedAt(i).sender_timestamp = ReceivedAt(i).timestamp
        /\ ReflectedAt(i).error_estimate_sender = ReceivedAt(i).error_estimate

\* the second test packet sent arrived first, the first one second
C7_Witness ==
    /\ Len(refl_tx_log) = 2
    /\ ReflectedAt(1).sender_sequence_number = 1
    /\ ReflectedAt(2).sender_sequence_number = 0

\* C8: once the Control-Client has read an Accept-Session whose accept is not
\* Ok, do_twamp_control has ended with an error, neither reflector_port nor
\* start was fired, neither Start-Sessions nor Stop-Sessions was emitted, and
\* no test packet was sent.
C8_RefusedAcceptSessionAborts ==
    HoldsRefused(cc_read, "AcceptSession") =>
        /\ cc_pc = "done" /\ cc_ret = "Err"
        /\ ~Fired(reflector_port_ch)
        /\ ~Fired(start_session_ch)
        /\ ~Holds(cc_sent, "StartSessions")
        /\ ~Holds(cc_sent, "StopSessions")
        /\ send_pc = "unspawned" /\ sent_log = << >> /\ net_s2r = EmptyBag

C8_Witness ==
    /\ HoldsRefused(cc_read, "AcceptSession")
    /\ ss_pc = "panicked"

\* C9: once the Control-Client has read a Start-Ack whose accept is not Ok,
\* do_twamp_control has ended with an error, start was not fired, no test
\* packet was sent and Stop-Sessions was not emitted.
C9_RefusedStartAckAborts ==
    HoldsRefused(cc_read, "StartAck") =>
        /\ cc_pc = "done" /\ cc_ret = "Err"
        /\ ~Fired(start_session_ch)
        /\ ~Holds(cc_sent, "StopSessions")
        /\ send_pc = "unspawned" /\ sent_log = << >> /\ net_s2r = EmptyBag

C9_Witness ==
    /\ HoldsRefused(cc_read, "StartAck")
    /\ udp_connected # -1
    /\ ss_pc = "panicked"

\* C10: once the Control-Client has read a ServerStart whose accept is not Ok,
\* it has ended with an error and has emitted no Request-TW-Session.
C10_RefusedServerStartAborts ==
    HoldsRefused(cc_read, "ServerStart") =>
        /\ cc_pc = "done" /\ cc_ret = "Err"
        /\ ~Holds(cc_sent, "RequestTwSession")

\* the ServerGreeting the Control-Client read offers no unauthenticated mode
GreetingWithoutUnauthenticated ==
    \E i \in 1..Len(cc_read) :
        /\ cc_read[i].type = "ServerGreeting"
        /\ (cc_read[i].mode \div Unauthenticated) % 2 = 0

\* C11: once the Control-Client has read a ServerGreeting whose mode bitmap
\* lacks Unauthenticated, it has ended with an error and has emitted no
\* Set-Up-Response.
C11_GreetingWithoutModeAborts ==
    GreetingWithoutUnauthenticated =>
        /\ cc_pc = "done" /\ cc_ret = "Err"
        /\ ~Holds(cc_sent, "SetUpResponse")

(***************************************************************************)
(* Progress.  The tokio runtime schedules every task that can run and its  *)
(* timers expire; the Controller's steps are taken when they stay enabled. *)
(***************************************************************************)
ControllerFairness ==
    /\ WF_vars(ss_await_reflector_port)
    /\ WF_vars(ss_connect)
    /\ WF_vars(ss_await_start)
    /\ WF_vars(send_it)
    /\ WF_vars(ss_join_send_task)
    /\ WF_vars(ss_select_sleep)
    /\ WF_vars(await_test_complete)
    /\ WF_vars(send_stop_sessions)

SpecLive == Init /\ [][Next]_vars /\ ControllerFairness

\* the Control-Client has emitted Stop-Sessions, or the peer has closed the
\* TCP stream (it is no longer writable)
StopSessionsEmittedOrUnwritable ==
    Holds(cc_sent, "StopSessions") \/ srv_stream = "closed"

C13_TestCompleteOnlyAfterLoopsEnded ==
    Fired(twamp_test_complete_ch) =>
        /\ send_pc = "done"
        /\ \/ select_won = "sleep"
           \/ recv_count = number_of_test_packets


(***************************************************************************)
(* REFWAIT.                                                                *)
(***************************************************************************)
\* C14: when no datagram arrives within refwait, do_reflect returns
\* RefwaitTimeout carrying the number of packets reflected so far, and the
\* timeout can end every wait of the loop, the first as well as the later ones.
C14_RefwaitTimeoutCarriesCount ==
    /\ refl_ret.err = "RefwaitTimeout" =>
           /\ refl_pc = "done"
           /\ refl_ret.n = Len(refl_tx_log)
    /\ refl_pc = "do_reflect" => ENABLED refwait_timeout

C14_Witness ==
    /\ refl_ret.err = "RefwaitTimeout"
    /\ refl_ret.n = 2
    /\ Len(refl_tx_log) = 2


(***************************************************************************)
(* The Session-Reflector after Stop-Sessions.                              *)
(***************************************************************************)
\* the Request-TW-Session messages the Server read
RequestsRead == { i \in 1..Len(srv_read) : srv_read[i].type = "RequestTwSession" }

\* the Session-Reflector task is on its post-stop path and the stop signal fired
PostStop == Fired(stop_sessions_ch) /\ sr_pc \in {"await_timeout", "sleep"}

\* the sleep of the post-stop path lasts the timeout of the request that was
\* read, the abort is sent only once that sleep is over, and an aborted
\* reflect loop reflects nothing
PostStopSleepThenAbort ==
    /\ sr_pc = "sleep" =>
           \A i \in RequestsRead : timeout_ch.val = srv_read[i].timeout
    /\ sr_pc = "sleep" => RequestsRead # {}
    /\ Fired(reflect_abort_ch) => timeout_ch.rx = "done" /\ sr_pc = "done"
    /\ refl_ret = ReflectAborted => refl_pc = "done" /\ ~ENABLED do_reflect

C16_TaskErrorIsReturned ==
    (/\ resp_pc # "try_join"
     /\ \/ srv_ret = "Err"
        \/ sr_ret = "Err"
        \/ refl_ret.err = "RefwaitTimeout")
        => resp_pc = "Err"


(***************************************************************************)
(* What Controller::do_twamp returns.                                      *)
(***************************************************************************)
\* C17: when do_twamp_control ended with an error, do_twamp returns that error
\* to its caller: it neither returns Ok nor panics.
C17_ControlErrorIsReturned ==
    (cc_pc = "done" /\ cc_ret = "Err" /\ ctl_pc # "try_join") => ctl_pc = "Err"


(***************************************************************************)
(* A test_complete channel that closes without firing.                     *)
(***************************************************************************)
\* C18: when the Session-Sender task ended without firing test_complete, the
\* Control-Client takes the closed channel for fatal: it does not emit
\* Stop-Sessions and does not end with Ok.
C18_ClosedTestCompleteAborts ==
    twamp_test_complete_ch.tx = "dropped" =>
        /\ ~Holds(cc_sent, "StopSessions")
        /\ cc_pc = "done" => cc_ret # "Ok"


(***************************************************************************)
(* The post-stop path and the Stop-Sessions message.                       *)
(***************************************************************************)
\* C19: the Session-Reflector task takes the post-stop path (sleep, then abort
\* of the reflect loop) only if the Server read a Stop-Sessions message; when
\* the Server ended without reading one, the reflect loop is not aborted and
\* ends only by the refwait guard.
C19_PostStopOnlyAfterStopSessions ==
    /\ sr_pc \in {"await_timeout", "sleep"} => Holds(srv_read, "StopSessions")
    /\ (srv_pc = "done" /\ ~Holds(srv_read, "StopSessions")) =>
           refl_ret # ReflectAborted


(***************************************************************************)
(* The shared list of reflected packets after test_complete.               *)
(***************************************************************************)
\* C20: when the stop_session_sleep arm won the select!, the receive task has
\* stopped: once test_complete is signalled no step appends a reflected packet
\* to the shared list, and no step changes the list while the metrics are
\* computed.
C20_NoAppendAfterTestComplete ==
    [][ /\ (select_won = "sleep" /\ Fired(twamp_test_complete_ch)) =>
               reflected_pkts_vec' = reflected_pkts_vec
        /\ ctl_pc = "metrics" => reflected_pkts_vec' = reflected_pkts_vec ]_vars


(***************************************************************************)
(* SessionSender::send_it.                                                 *)
(***************************************************************************)
\* C21: send_it(N) sends, in this order, the packets numbered 0, 1, .. with
\* no padding, each number once and never more than N of them; when the loop
\* ended without a failed send exactly N packets were sent.
C21_SendItNumbersPackets ==
    /\ Len(sent_log) <= number_of_test_packets
    /\ Len(sent_log) = send_i
    /\ \A k \in 1..Len(sent_log) :
           /\ sent_log[k].sequence_number = k - 1
           /\ Len(sent_log[k].packet_padding) = 0
    /\ (send_pc = "done" /\ send_i = number_of_test_packets) =>
           Len(sent_log) = number_of_test_packets

C21_Witness ==
    /\ send_pc = "done"
    /\ number_of_test_packets = 2
    /\ Len(sent_log) = 2
    /\ sent_log[2].sequence_number = 1


(***************************************************************************)
(* The library's pure functions, each called on its own with its arguments  *)
(* drawn from a set of samples; no session runs meanwhile.                  *)
(***************************************************************************)
\* what every such call leaves alone, and its return
fn_frame ==
    UNCHANGED << fn_call, cfgVars, tcpVars, controllerVars, udpVars, responderVars,
                 stub_next >>

fn_return(fn, ret) ==
    /\ fn_pc = "called"
    /\ fn_call.fn = fn
    /\ fn_pc' = "returned"
    /\ fn_ret' = ret
    /\ fn_frame

Returned(fn) == fn_pc = "returned" /\ fn_call.fn = fn

\* octet arrays tried for the random and the unused fields
Ramp(n) == [i \in 1..n |-> i]
Octets16 == {Zeros(16), Ramp(16)}
\* IPv4 addresses, ports, timeouts and timestamps tried
Addresses == {<< 0, 0, 0, 0 >>, << 127, 0, 0, 1 >>}
WirePorts == {0, 862, 65535}
WireTimeouts == {0, 900}
TimeStamps == {TimeStampDefault(0), TimeStampDefault(255)}

\* every message the constructors build from the sampled arguments
BuiltMessages ==
    {[type |-> "ServerGreeting", msg |-> WireServerGreetingNew(S, c, t)] :
        S \in SUBSET SecurityMode, c \in Octets16, t \in Octets16}
    \cup {[type |-> "SetUpResponse", msg |-> WireSetUpResponseNew(m).msg] :
        m \in {x \in SecurityMode : WireSetUpResponseNew(x).ok}}
    \cup {[type |-> "ServerStart", msg |-> WireServerStartNew(a, t)] :
        a \in Accept, t \in TimeStamps}
    \cup {[type |-> "RequestTwSession",
           msg |-> WireRequestTwSessionNew(sa, sp, sa, rp, t, to)] :
        sa \in Addresses, sp \in WirePorts, rp \in WirePorts, t \in TimeStamps,
        to \in WireTimeouts}
    \cup {[type |-> "AcceptSession", msg |-> WireAcceptSessionNew(a, p, o, o)] :
        a \in Accept, p \in WirePorts, o \in {0, 1}}
    \cup {[type |-> "StartSessions", msg |-> WireStartSessionsNew]}
    \cup {[type |-> "StartAck", msg |-> WireStartAckNew(a)] : a \in Accept}
    \cup {[type |-> "StopSessions", msg |-> WireStopSessionsNew(a)] : a \in Accept}

RoundTripCalls == {[fn |-> "control_round_trip", arg |-> m] : m \in BuiltMessages}

\* msg.to_bytes(), then from_bytes((&encoded, 0))
control_round_trip ==
    LET encoded == WireToBytes(fn_call.arg.type, fn_call.arg.msg)
    IN  fn_return("control_round_trip",
                  [encoded |-> encoded,
                   decoded |-> WireFromBytes(fn_call.arg.type, encoded)])

\* TWAMP-Test packets built by new(..): sequence numbers, clock values and
\* padding lengths tried
TestSequenceNumbers == {0, 1, 65536}
TestPackets ==
    {TwampTestPacketUnauthNew(seq, p, sync, 1) :
        seq \in TestSequenceNumbers, p \in 0..MAX_PADDING_LENGTH, sync \in BOOLEAN}
ReflectedPackets ==
    {TwampTestPacketUnauthReflectedNew(seq, pkt, TimeStampDefault(2), 3) :
        seq \in {0, 1}, pkt \in {t \in TestPackets : Len(t.packet_padding) \in {0, 27}}}

TestRoundTripCalls ==
    {[fn |-> "test_round_trip", arg |-> [reflected |-> FALSE, pkt |-> t]] :
        t \in TestPackets}
    \cup {[fn |-> "test_round_trip", arg |-> [reflected |-> TRUE, pkt |-> r]] :
        r \in ReflectedPackets}

\* pkt.to_bytes(), then from_bytes((&encoded, 0)) on exactly those octets
test_round_trip ==
    LET encoded == IF fn_call.arg.reflected
                   THEN TwampTestPacketUnauthReflectedToBytes(fn_call.arg.pkt)
                   ELSE TwampTestPacketUnauthToBytes(fn_call.arg.pkt)
    IN  fn_return("test_round_trip",
                  [encoded |-> encoded,
                   decoded |-> IF fn_call.arg.reflected
                               THEN TwampTestPacketUnauthReflectedFromBytes(encoded)
                               ELSE TwampTestPacketUnauthFromBytes(encoded)])

\* the bits of n octets from octet off on, counted from the first bit of an image
OctetBits(off, n) == (8 * off)..(8 * (off + n) - 1)

\* the MBZ bits of each message: the octets carrying assert_eq = 0 or named
\* mbz, the high nibble of Request-TW-Session's second octet, and the mbz bit
\* of every ErrorEstimate
MbzBits(type) ==
    CASE type = "ServerGreeting" -> OctetBits(0, 12) \cup OctetBits(52, 12)
      [] type = "ServerStart" -> OctetBits(0, 15) \cup OctetBits(40, 8)
      [] type = "RequestTwSession" -> (8..11) \cup OctetBits(92, 4)
      [] type = "AcceptSession" -> OctetBits(1, 1) \cup OctetBits(24, 8)
      [] type = "StartSessions" -> OctetBits(1, 15)
      [] type = "StartAck" -> OctetBits(1, 15)
      [] type = "StopSessions" -> OctetBits(2, 2)
      [] type = "TwampTestPacketUnauth" -> {97}
      [] type = "TwampTestPacketUnauthReflected" ->
            OctetBits(14, 2) \cup OctetBits(38, 2) \cup {97, 289}

RECURSIVE Pow2(_)
Pow2(n) == IF n = 0 THEN 1 ELSE 2 * Pow2(n - 1)

\* the image b with one bit set
SetBit(b, bit) ==
    LET i == bit \div 8 + 1
        mask == Pow2(7 - (bit % 8))
    IN  [b EXCEPT ![i] = IF (b[i] \div mask) % 2 = 1 THEN b[i] ELSE b[i] + mask]

\* a valid image of each message that has MBZ bits
ValidImage(type) ==
    CASE type = "ServerGreeting" ->
            WireServerGreetingToBytes(
                WireServerGreetingNew({Unauthenticated}, Ramp(16), Ramp(16)))
      [] type = "ServerStart" ->
            WireServerStartToBytes(WireServerStartNew(AcceptOk, TimeStampDefault(1)))
      [] type = "RequestTwSession" ->
            WireRequestTwSessionToBytes(
                WireRequestTwSessionNew(<< 127, 0, 0, 1 >>, 1, << 127, 0, 0, 1 >>, 862,
                                        TimeStampDefault(1), 900))
      [] type = "AcceptSession" ->
            WireAcceptSessionToBytes(WireAcceptSessionNew(AcceptOk, 862, 0, 0))
      [] type = "StartSessions" -> WireStartSessionsToBytes(WireStartSessionsNew)
      [] type = "StartAck" -> WireStartAckToBytes(WireStartAckNew(AcceptOk))
      [] type = "StopSessions" -> WireStopSessionsToBytes(WireStopSessionsNew(AcceptOk))
      [] type = "TwampTestPacketUnauth" ->
            TwampTestPacketUnauthToBytes(
                TwampTestPacketUnauthNew(1, MAX_PADDING_LENGTH, TRUE, 1))
      [] type = "TwampTestPacketUnauthReflected" ->
            RecvBuf(TwampTestPacketUnauthReflectedToBytes(
                        TwampTestPacketUnauthReflectedNew(
                            1, TwampTestPacketUnauthNew(1, 0, TRUE, 1),
                            TimeStampDefault(2), 3)),
                    ReflectedPacketReadLen)

\* from_bytes of the type: whether it succeeds
ParsesOk(type, b) ==
    CASE type = "TwampTestPacketUnauth" -> TwampTestPacketUnauthFromBytes(b).ok
      [] type = "TwampTestPacketUnauthReflected" ->
            TwampTestPacketUnauthReflectedFromBytes(b).ok
      [] OTHER -> WireFromBytes(type, b).ok

MessagesWithMbz ==
    (ControlMessages \ {"SetUpResponse"})
        \cup {"TwampTestPacketUnauth", "TwampTestPacketUnauthReflected"}

ParseFlippedCalls ==
    UNION {{[fn |-> "parse_flipped", arg |-> [type |-> t, bit |-> k]] : k \in MbzBits(t)} :
              t \in MessagesWithMbz}

\* from_bytes of a valid image, and of that image with one MBZ bit set
parse_flipped ==
    LET image == ValidImage(fn_call.arg.type)
    IN  fn_return("parse_flipped",
                  [valid |-> ParsesOk(fn_call.arg.type, image),
                   flipped |-> ParsesOk(fn_call.arg.type,
                                        SetBit(image, fn_call.arg.bit))])

\* the messages that open with a command number
CommandMessages == {"RequestTwSession", "StartSessions", "StopSessions"}

ParseCommandCalls ==
    {[fn |-> "parse_command", arg |-> [type |-> t, byte |-> v]] :
        t \in CommandMessages, v \in 0..255}

\* from_bytes of a valid image whose first octet is replaced by a byte value
parse_command ==
    LET image == ValidImage(fn_call.arg.type)
    IN  fn_return("parse_command",
                  [command_number |-> image[1],
                   ok |-> ParsesOk(fn_call.arg.type,
                                   [image EXCEPT ![1] = fn_call.arg.byte])])

\* multiplier octets a peer may put in an ErrorEstimate: 0, the two values
\* ErrorEstimate::new writes, and one more
Multipliers == {0, 1, 2, 255}

\* the datagrams a Session-Sender, and a Session-Reflector, of any
\* implementation may send: the packets built by new with another multiplier
ForeignTestDatagrams ==
    {TwampTestPacketUnauthToBytes(
         [p EXCEPT !.error_estimate.multiplier = mult]) :
        p \in {TwampTestPacketUnauthNew(s, len, TRUE, 1) :
                  s \in TestSequenceNumbers, len \in {0, MAX_PADDING_LENGTH}},
        mult \in Multipliers}

ForeignReflectedDatagrams ==
    {TwampTestPacketUnauthReflectedToBytes(
         [p EXCEPT !.error_estimate.multiplier = mult,
                   !.error_estimate_sender.multiplier = ms]) :
        p \in ReflectedPackets, mult \in Multipliers, ms \in Multipliers}

ReceiveCalls ==
    {[fn |-> "receive_datagram", arg |-> [reflector |-> TRUE, d |-> d]] :
        d \in ForeignTestDatagrams}
    \cup {[fn |-> "receive_datagram", arg |-> [reflector |-> FALSE, d |-> d]] :
             d \in ForeignReflectedDatagrams}

\* one turn of the loop of do_reflect, or of SessionSender::recv, on a
\* datagram: the reflections sent, or the pairs pushed onto the shared list
receive_datagram ==
    /\ fn_call.fn = "receive_datagram"
    /\ IF fn_call.arg.reflector
       THEN LET r == TwampTestPacketUnauthFromBytes(
                         RecvBuf(fn_call.arg.d, TestPacketReadLen))
                pkt_reflected ==
                    TwampTestPacketUnauthReflectedNew(0, r.pkt, TimeStampDefault(2), 3)
            IN  fn_return("receive_datagram",
                          [ok |-> r.ok,
                           out |-> IF r.ok
                                   THEN << TwampTestPacketUnauthReflectedToBytes(
                                               pkt_reflected) >>
                                   ELSE << >>])
       ELSE LET r == TwampTestPacketUnauthReflectedFromBytes(
                         RecvBuf(fn_call.arg.d, ReflectedPacketReadLen))
            IN  fn_return("receive_datagram",
                          [ok |-> r.ok,
                           out |-> IF r.ok THEN << << r.pkt, TimeStampDefault(2) >> >>
                                   ELSE << >>])

HasModeCalls ==
    {[fn |-> "greeting_has_mode", arg |-> [modes |-> S]] : S \in SUBSET SecurityMode}

\* ServerGreeting::new(modes), then has_mode of every SecurityMode
greeting_has_mode ==
    /\ fn_call.fn = "greeting_has_mode"
    /\ LET server_greeting ==
               WireServerGreetingNew(fn_call.arg.modes, Ramp(16), Ramp(16))
       IN  fn_return("greeting_has_mode",
                     [mode |-> server_greeting.mode,
                      has_mode |-> [m \in SecurityMode |-> has_mode(server_greeting, m)]])

SetUpResponseCalls ==
    {[fn |-> "set_up_response_new", arg |-> [mode |-> mode]] : mode \in SecurityMode}

\* SetUpResponse::new(mode)
set_up_response_new ==
    fn_return("set_up_response_new", WireSetUpResponseNew(fn_call.arg.mode))

\* durations below 2^32 seconds: around zero, around 2^32 - NTP_EPOCH
\* (31829 * 2^16 + 33152 seconds), and up to 2^32 - 1 seconds
DurationSecs ==
    {<< hi, lo >> : hi \in {0, 31829, 65535}, lo \in {0, 1, 33151, 33152, 65535}}
DurationNanos == {0, 1, 999999999}
Durations == {[secs |-> s, nanos |-> n] : s \in DurationSecs, n \in DurationNanos}

FromThenSubCalls == {[fn |-> "from_then_sub", arg |-> [d |-> d]] : d \in Durations}

\* TimeStamp::from(d) - TimeStamp::from(Duration::ZERO), built with or without
\* overflow checks
from_then_sub ==
    /\ fn_call.fn = "from_then_sub"
    /\ LET from_d == TimeStampFromDuration(fn_call.arg.d)
           from_zero == TimeStampFromDuration([secs |-> U32Zero, nanos |-> 0])
           r == sub(from_d, from_zero)
       IN  \E overflow_checks \in BOOLEAN :
               fn_return("from_then_sub",
                         [from |-> from_d,
                          panicked |-> r.overflow /\ overflow_checks,
                          overflow |-> r.overflow,
                          value |-> r.value])

\* integer and fractional parts of the sampled timestamps: the ends of the
\* range, a nanosecond count, the halves of the range, and the fractional
\* parts 3,000,000,000 and 2,500,000,000 of the addition test
WideIntegers == {U32Zero, << 0, 1 >>, << 0, 10 >>, << 32768, 0 >>, U32Max}
WideFractions ==
    {U32Zero, << 0, 1 >>, U32(999999999), U32(1000000000), << 32768, 0 >>,
     << 38146, 63744 >>, << 45776, 24064 >>, U32Max}
WideTimeStamps ==
    {[integer_part_of_seconds |-> i, fractional_part_of_seconds |-> f] :
        i \in WideIntegers, f \in WideFractions}

TimeStampPairs == {[a |-> a, b |-> b] : a \in WideTimeStamps, b \in WideTimeStamps}

AddThenSubCalls == {[fn |-> "add_then_sub", arg |-> p] : p \in TimeStampPairs}

\* (a + b) - b, built with or without overflow checks
add_then_sub ==
    /\ fn_call.fn = "add_then_sub"
    /\ LET s == add(fn_call.arg.a, fn_call.arg.b)
           r == sub(s.value, fn_call.arg.b)
       IN  \E overflow_checks \in BOOLEAN :
               fn_return("add_then_sub",
                         [add_overflow |-> s.overflow,
                          panicked |-> (s.overflow \/ r.overflow) /\ overflow_checks,
                          overflow |-> r.overflow,
                          value |-> r.value])

\* non-empty sequences of up to MaxSumLen timestamps
MaxSumLen == 2
SumTimeStamps ==
    {[integer_part_of_seconds |-> i, fractional_part_of_seconds |-> f] :
        i \in {U32Zero, << 0, 10 >>}, f \in {U32Zero, U32(999999999), << 45776, 24064 >>}}
SumCalls ==
    {[fn |-> "sum_timestamps", arg |-> [iter |-> ts]] :
        ts \in UNION {[1..n -> SumTimeStamps] : n \in 1..MaxSumLen}}

\* iter.sum::<TimeStamp>(), and t1 + t2 + .. + tn from left to right
RECURSIVE LeftToRight(_)
LeftToRight(ts) ==
    IF Len(ts) = 1 THEN ts[1]
    ELSE add(LeftToRight(SubSeq(ts, 1, Len(ts) - 1)), ts[Len(ts)]).value

sum_timestamps ==
    /\ fn_call.fn = "sum_timestamps"
    /\ fn_return("sum_timestamps",
                 [sum |-> sum(fn_call.arg.iter).value,
                  added |-> LeftToRight(fn_call.arg.iter)])

SubCalls == {[fn |-> "sub_timestamps", arg |-> p] : p \in TimeStampPairs}

\* a - b, built with or without overflow checks
sub_timestamps ==
    /\ fn_call.fn = "sub_timestamps"
    /\ LET r == sub(fn_call.arg.a, fn_call.arg.b)
       IN  \E overflow_checks \in BOOLEAN :
               fn_return("sub_timestamps",
                         [panicked |-> r.overflow /\ overflow_checks,
                          overflow |-> r.overflow,
                          value |-> r.value])

\* UdpSocket::bind on a port: port 0 asks the system for a free port, here
\* os_port
UdpSocketBind(port, os_port) == [local_port |-> IF port = 0 THEN os_port ELSE port]

\* a faulty variant: the configured port is passed on as it is
configured_controller_port(controller_port_arg, udp_socket_arg) == controller_port_arg

\* controller_port = udp_socket.local_addr().unwrap().port()
bound_controller_port(controller_port_arg, udp_socket_arg) == udp_socket_arg.local_port

\* configured controller ports (0: assigned by the system) and the ports the
\* system may assign
ConfiguredPorts == {0, 1, 862, 65535}
SystemPorts == {32768, 60999}
BindCalls ==
    {[fn |-> "bind_then_request", arg |-> [controller_port |-> p, os_port |-> q]] :
        p \in ConfiguredPorts, q \in SystemPorts}

\* the head of Controller::do_twamp (bind, local_addr) and the
\* Request-TW-Session that send_request_tw_session writes with the port handed
\* to do_twamp_control
bind_then_request ==
    /\ fn_call.fn = "bind_then_request"
    /\ LET udp_socket_bound == UdpSocketBind(fn_call.arg.controller_port, fn_call.arg.os_port)
           port == bound_controller_port(fn_call.arg.controller_port, udp_socket_bound)
           encoded ==
               WireRequestTwSessionToBytes(
                   WireRequestTwSessionNew(<< 127, 0, 0, 1 >>, port, << 127, 0, 0, 1 >>,
                                           0, TimeStampDefault(1), 900))
       IN  fn_return("bind_then_request",
                     [local_port |-> udp_socket_bound.local_port,
                      request |-> WireRequestTwSessionFromBytes(encoded)])

\* a do_reflect that passes over a datagram it cannot parse
RECURSIVE do_reflect_skipping(_, _, _)
do_reflect_skipping(datagrams, n, out) ==
    IF datagrams = << >>
    THEN [ret |-> RefwaitTimeout(n), pkts_processed_number |-> n, out |-> out]
    ELSE LET r == TwampTestPacketUnauthFromBytes(RecvBuf(Head(datagrams), TestPacketReadLen))
         IN  IF ~r.ok
             THEN do_reflect_skipping(Tail(datagrams), n, out)
             ELSE do_reflect_skipping(
                      Tail(datagrams), n + 1,
                      Append(out, TwampTestPacketUnauthReflectedToBytes(
                                      TwampTestPacketUnauthReflectedNew(
                                          n, r.pkt, TimeStampDefault(2), 3))))

\* the loop of SessionReflector::do_reflect on the datagrams that arrive, each
\* within refwait, with n packets processed and out sent so far; after the
\* last one the refwait guard expires
RECURSIVE do_reflect_loop(_, _, _)
do_reflect_loop(datagrams, n, out) ==
    IF datagrams = << >>
    THEN [ret |-> RefwaitTimeout(n), pkts_processed_number |-> n, out |-> out]
    ELSE LET r == TwampTestPacketUnauthFromBytes(RecvBuf(Head(datagrams), TestPacketReadLen))
         IN  IF ~r.ok
             THEN [ret |-> WireConversionError, pkts_processed_number |-> n, out |-> out]
             ELSE do_reflect_loop(
                      Tail(datagrams), n + 1,
                      Append(out, TwampTestPacketUnauthReflectedToBytes(
                                      TwampTestPacketUnauthReflectedNew(
                                          n, r.pkt, TimeStampDefault(2), 3))))

\* test datagrams as send_it writes them, and the same with the MBZ bit of
\* the ErrorEstimate (bit 64 of octet 13) set
MaxDatagrams == 3
GoodDatagrams ==
    {TwampTestPacketUnauthToBytes(TwampTestPacketUnauthNew(s, 0, TRUE, 1)) : s \in 0..1}
BadDatagrams == {[d EXCEPT ![13] = d[13] + 64] : d \in GoodDatagrams}
ReflectCalls ==
    {[fn |-> "reflect_datagrams", arg |-> [datagrams |-> ds]] :
        ds \in UNION {[1..n -> GoodDatagrams \cup BadDatagrams] : n \in 1..MaxDatagrams}}

reflect_datagrams ==
    /\ fn_call.fn = "reflect_datagrams"
    /\ fn_return("reflect_datagrams", do_reflect_loop(fn_call.arg.datagrams, 0, << >>))

FnCalls == RoundTripCalls \cup TestRoundTripCalls \cup ParseFlippedCalls \cup ParseCommandCalls \cup ReceiveCalls \cup HasModeCalls \cup SetUpResponseCalls \cup FromThenSubCalls \cup AddThenSubCalls \cup SumCalls \cup SubCalls \cup BindCalls \cup ReflectCalls

FnInit ==
    /\ SessionInit
    /\ number_of_test_packets = 0 /\ responder_reflect_port = 0 /\ peer = "stub"
    /\ fn_call \in FnCalls /\ fn_pc = "called" /\ fn_ret = NoCall

FnNext ==
    \/ control_round_trip
    \/ test_round_trip
    \/ parse_flipped
    \/ parse_command
    \/ receive_datagram
    \/ greeting_has_mode
    \/ set_up_response_new
    \/ from_then_sub
    \/ add_then_sub
    \/ sum_timestamps
    \/ sub_timestamps
    \/ bind_then_request
    \/ reflect_datagrams

SpecFn == FnInit /\ [][FnNext]_vars

\* C22: a control message built by its constructor serializes to 64, 164, 48,
\* 112, 48, 32, 32 and 20 octets (ServerGreeting .. Stop-Sessions in dialogue
\* order), and parsing those octets succeeds and gives back the message.
C22_ControlMessagesRoundTrip ==
    Returned("control_round_trip") =>
        LET type == fn_call.arg.type
            size == CASE type = "ServerGreeting" -> 64
                      [] type = "SetUpResponse" -> 164
                      [] type = "ServerStart" -> 48
                      [] type = "RequestTwSession" -> 112
                      [] type = "AcceptSession" -> 48
                      [] type = "StartSessions" -> 32
                      [] type = "StartAck" -> 32
                      [] type = "StopSessions" -> 20
        IN  /\ Len(fn_ret.encoded) = size
            /\ fn_ret.decoded.ok
            /\ fn_ret.decoded.msg = fn_call.arg.msg

C22_Witness ==
    /\ Returned("control_round_trip")
    /\ fn_call.arg.type = "RequestTwSession"
    /\ fn_call.arg.msg.timeout = U64(900)
    /\ fn_call.arg.msg.receiver_port = 862
    /\ fn_ret.decoded.msg.receiver_port = 862
    /\ Len(fn_ret.encoded) = 112


\* C23: parsing exactly the octets a TWAMP-Test packet built by new(..)
\* serializes to, for any padding length 0..27 and for a reflected packet,
\* succeeds and gives back the packet, padding length included.
C23_TestPacketsRoundTrip ==
    Returned("test_round_trip") =>
        /\ fn_ret.decoded.ok
        /\ fn_ret.decoded.pkt = fn_call.arg.pkt
        /\ Len(fn_ret.decoded.pkt.packet_padding) = Len(fn_call.arg.pkt.packet_padding)


\* C24: for every message with an MBZ field, an image that differs from a
\* valid one in one set MBZ bit does not parse.
C24_SetMbzBitFailsToParse ==
    Returned("parse_flipped") => (fn_ret.valid /\ ~fn_ret.flipped)


C26_NonzeroMbzReturnsError ==
    [][/\ (Len(s2c) > 0 /\ Head(s2c).mbz # 0 /\ s2c' = Tail(s2c)) =>
            (cc_pc' = "done" /\ cc_ret' = "Err" /\ cc_sent' = cc_sent)
       /\ cc_pc = "done" => cc_sent' = cc_sent]_vars


\* the ErrorEstimate multiplier octets of a datagram: octet 14 of a test
\* packet, octets 14 and 38 of a reflected one
ZeroMultiplier ==
    \/ fn_call.arg.d[14] = 0
    \/ ~fn_call.arg.reflector /\ fn_call.arg.d[38] = 0

\* C27: a receiver discards a packet whose ErrorEstimate multiplier is 0: the
\* Session-Reflector sends no reflection for it and the Session-Sender records
\* none.
C27_ZeroMultiplierIsDiscarded ==
    (Returned("receive_datagram") /\ ZeroMultiplier) => fn_ret.out = << >>


\* bit m of the mode field is set
ModeBitSet(mode, m) == (mode \div m) % 2 = 1

\* C28: the mode field of ServerGreeting::new(S) is the bitwise OR of the
\* modes in S; has_mode(m) is true exactly when the bit of m is set, for the
\* four modes other than Reserved, and has_mode(Reserved) is true exactly when
\* the mode field is 0.
C28_HasModeReadsTheBitmap ==
    Returned("greeting_has_mode") =>
        /\ fn_ret.mode \in 0..15
        /\ \A m \in SecurityMode \ {Reserved} :
               /\ ModeBitSet(fn_ret.mode, m) <=> m \in fn_call.arg.modes
               /\ fn_ret.has_mode[m] <=> ModeBitSet(fn_ret.mode, m)
        /\ fn_ret.has_mode[Reserved] <=> fn_ret.mode = 0

C28_Witness ==
    /\ Returned("greeting_has_mode")
    /\ fn_call.arg.modes = {Reserved, Unauthenticated, Encrypted}
    /\ fn_ret.mode = 5
    /\ fn_ret.has_mode[Encrypted]
    /\ ~fn_ret.has_mode[Authenticated]
    /\ ~fn_ret.has_mode[Reserved]


\* C29: SetUpResponse::new(mode) succeeds only for Unauthenticated; for every
\* other mode, Reserved included, it returns an error.
C29_OnlyUnauthenticatedIsAccepted ==
    Returned("set_up_response_new") =>
        (fn_ret.ok <=> fn_call.arg.mode = Unauthenticated)


\* C30: for every duration d below 2^32 seconds, TimeStamp::from(d) -
\* TimeStamp::from(zero) completes without overflow or underflow and is d
\* (integer part the seconds of d, fractional part its nanoseconds), and
\* TimeStamp::from(d) has integer part (seconds of d + 2,208,988,800) mod 2^32.
C30_FromThenSubGivesDuration ==
    Returned("from_then_sub") =>
        /\ ~fn_ret.overflow /\ ~fn_ret.panicked
        /\ fn_ret.value.integer_part_of_seconds = fn_call.arg.d.secs
        /\ fn_ret.value.fractional_part_of_seconds = U32(fn_call.arg.d.nanos)
        /\ fn_ret.from.integer_part_of_seconds = U32Add(fn_call.arg.d.secs, NTP_EPOCH).v


\* t is s, or s moved by one unit of the fractional field, the unit possibly
\* carried into or borrowed from the integer part
WithinOneUnit(t, s) ==
    LET up(x) ==
            IF x.fractional_part_of_seconds \in {U32Max, U32(999999999)}
            THEN {[x EXCEPT !.fractional_part_of_seconds =
                                U32Add(x.fractional_part_of_seconds, << 0, 1 >>).v],
                  [integer_part_of_seconds |->
                       U32Add(x.integer_part_of_seconds, << 0, 1 >>).v,
                   fractional_part_of_seconds |-> U32Zero]}
            ELSE {[x EXCEPT !.fractional_part_of_seconds =
                                U32Add(x.fractional_part_of_seconds, << 0, 1 >>).v]}
    IN  t = s \/ t \in up(s) \/ s \in up(t)

\* C31: when a + b does not overflow the integer part, (a + b) - b completes
\* without overflow and is a up to one unit of the fractional field.
C31_AddThenSubGivesBack ==
    (Returned("add_then_sub") /\ ~fn_ret.add_overflow) =>
        /\ ~fn_ret.overflow /\ ~fn_ret.panicked
        /\ WithinOneUnit(fn_ret.value, fn_call.arg.a)


\* C32: the sum of a non-empty sequence of timestamps is t1 + t2 + .. + tn
\* evaluated from left to right, so the sum of [t] is t.
C32_SumIsRepeatedAddition ==
    Returned("sum_timestamps") =>
        /\ fn_ret.sum = fn_ret.added
        /\ Len(fn_call.arg.iter) = 1 => fn_ret.sum = fn_call.arg.iter[1]


\* a is later than b
Later(a, b) ==
    \/ U32Lt(b.integer_part_of_seconds, a.integer_part_of_seconds)
    \/ /\ a.integer_part_of_seconds = b.integer_part_of_seconds
       /\ U32Lt(b.fractional_part_of_seconds, a.fractional_part_of_seconds)

\* C33: for a later than b, a - b completes without overflow; when a's
\* fractional part is the smaller one it borrows a second (integer part
\* a.integer - b.integer - 1, fractional part a.fraction + 10^9 - b.fraction),
\* and otherwise it does not borrow.
C33_SubBorrowsOneSecond ==
    (Returned("sub_timestamps") /\ Later(fn_call.arg.a, fn_call.arg.b)) =>
        LET a == fn_call.arg.a
            b == fn_call.arg.b
            int == U32Sub(a.integer_part_of_seconds, b.integer_part_of_seconds).v
        IN  /\ ~fn_ret.overflow /\ ~fn_ret.panicked
            /\ IF U32Lt(a.fractional_part_of_seconds, b.fractional_part_of_seconds)
               THEN /\ fn_ret.value.integer_part_of_seconds = U32Sub(int, << 0, 1 >>).v
                    /\ fn_ret.value.fractional_part_of_seconds =
                           U32Sub(U32Add(a.fractional_part_of_seconds,
                                         U32(1000000000)).v,
                                  b.fractional_part_of_seconds).v
               ELSE /\ fn_ret.value.integer_part_of_seconds = int
                    /\ fn_ret.value.fractional_part_of_seconds =
                           U32Sub(a.fractional_part_of_seconds,
                                  b.fractional_part_of_seconds).v


\* C34: once the Server has read Stop-Sessions, the Session-Reflector task
\* does not end in a panic: the post-stop path completes, reflect_abort
\* included, whenever the refwait guard expires.
C34_PostStopNeverPanics ==
    Holds(srv_read, "StopSessions") => ~(sr_pc = "done" /\ sr_ret = "panic")


\* C35: when the refwait guard has expired and the Server then reads
\* Stop-Sessions, the Server task does not end in a panic: firing
\* stop_sessions_received succeeds.
C35_StopSessionsSignalNeverFails ==
    (refl_ret.err = "RefwaitTimeout" /\ Holds(srv_read, "StopSessions")) =>
        ~(srv_pc = "done" /\ srv_ret = "panic")


(***************************************************************************)
(* A task parked on a one-shot receiver is polled again once the channel   *)
(* resolves.                                                               *)
(***************************************************************************)
WakeFairness ==
    /\ WF_vars(await_test_complete)
    /\ WF_vars(ss_await_reflector_port)
    /\ WF_vars(ss_await_start)
    /\ WF_vars(srv_await_ref_port)
    /\ WF_vars(sr_await_request)
    /\ WF_vars(sr_await_start_ack)
    /\ WF_vars(sr_select_stop_sessions)
    /\ WF_vars(sr_await_timeout)
    /\ WF_vars(reflect_abort)

SpecWake == Init /\ [][Next]_vars /\ WakeFairness

\* the sender half of ch went without a value
Closed(ch) == ch.tx = "dropped"

\* a task of the Controller, of the Responder, waits on a one-shot signal
\* whose producer ended before firing it
ControllerWaitsOnClosed ==
    /\ ControllerAlive
    /\ \/ cc_pc = "await_test_complete" /\ Closed(twamp_test_complete_ch)
       \/ ss_pc = "await_reflector_port" /\ Closed(reflector_port_ch)
       \/ ss_pc = "await_start" /\ Closed(start_session_ch)

ServerWaitsOnClosed ==
    peer = "responder" /\ srv_pc = "await_ref_port" /\ Closed(ref_port_ch)

ReflectorWaitsOnClosed ==
    /\ peer = "responder"
    /\ \/ sr_pc = "await_request" /\ Closed(req_tw_ch)
       \/ sr_pc = "await_start_ack" /\ Closed(start_ack_ch)
       \/ sr_pc = "select" /\ Closed(stop_sessions_ch)
       \/ sr_pc = "await_timeout" /\ Closed(timeout_ch)
       \/ refl_pc = "do_reflect" /\ Closed(reflect_abort_ch)

\* C36: no task stays blocked on a one-shot signal whose producer has ended
\* without firing it: the waiting task is woken and leaves the wait.
C36_NoTaskHangsOnClosedSignal ==
    /\ []<>~ControllerWaitsOnClosed
    /\ []<>~ServerWaitsOnClosed
    /\ []<>~ReflectorWaitsOnClosed

C36_Witness ==
    /\ ss_pc = "panicked"
    /\ Closed(reflector_port_ch)
    /\ cc_pc = "done" /\ cc_ret = "Err"


\* C37: SessionSender::recv(N) records at most N reflected packets and has
\* returned once N are recorded: while it still waits for a datagram fewer
\* than N are recorded, for N = 0 too.
C37_RecvStopsAtN ==
    /\ Len(reflected_pkts_vec) <= number_of_test_packets
    /\ recv_pc = "recv" => recv_count < number_of_test_packets


\* C38: the sender_port of the Request-TW-Session the Control-Client emits is
\* the port the Session-Sender's socket is bound to, also when the configured
\* controller port is 0.
C38_SenderPortIsBoundPort ==
    Returned("bind_then_request") =>
        /\ fn_ret.request.ok
        /\ fn_ret.request.msg.sender_port = fn_ret.local_port
        /\ fn_ret.local_port # 0

C38_Witness ==
    /\ Returned("bind_then_request")
    /\ fn_call.arg.controller_port = 0
    /\ fn_ret.local_port = 60999
    /\ fn_ret.request.msg.sender_port = 60999


\* the datagrams before the first one that carries a set MBZ bit
BeforeFirstBad(ds) ==
    LET bad == {i \in 1..Len(ds) : ds[i] \in BadDatagrams}
    IN  IF bad = {} THEN Len(ds)
        ELSE (CHOOSE i \in bad : \A j \in bad : i <= j) - 1

====
